---------------------------- MODULE Spec2Model ----------------------------
(***************************************************************************)
(* A model of dask-geomodeling's geometry blocks (geometry/base.py,        *)
(* geometry/sources.py, geometry/set_operations.py) and of the raster      *)
(* blocks of raster/misc.py, evaluated by the request/response protocol    *)
(* of the specification (section 4.2).                                     *)
(*                                                                         *)
(* Python values are modelled as tagged records, so that values of         *)
(* different Python types never share a field name:                        *)
(*   None            [t |-> "none"]                                        *)
(*   a str           [t |-> "str", s |-> ...]                              *)
(*   a Block         [t |-> "node", id |-> index into nodes]               *)
(*   a geometry      [t |-> "box", b |-> <<x1, y1, x2, y2>>]               *)
(*   a dict          [t |-> "dict", d |-> record]                          *)
(* A dict is a record; a key is present iff it is in the record's DOMAIN.  *)
(*                                                                         *)
(* Four specifications share the state:                                    *)
(*   Spec          a caller builds geometry and raster blocks and calls    *)
(*                 get_data on them                                        *)
(*   SpecSeries    a caller builds series blocks over a geometry source    *)
(*                 and calls get_data on them                              *)
(*   SpecStatic    a caller calls the static process methods of            *)
(*                 Difference and Intersection on results it holds         *)
(*   SpecRequests  the request mappings as objects: a plan is called and   *)
(*                 a mapping it handed out is changed later                *)
(***************************************************************************)
EXTENDS Integers, Sequences, FiniteSets, TLC

VARIABLES nodes,   \* the blocks constructed so far: Seq of [kind, args]
          files,   \* the geometry files on disk: url -> table of rows
          raised,  \* the exception of the last constructor call, "" if none
          call     \* the last call (get_data, a process, a plan) and what it did

vars == <<nodes, files, raised, call>>

----------------------------------------------------------------------------
(* Bounds of the model.                                                    *)

\* the plane is a GridW x GridH grid of unit cells
GridW == 2
GridH == 2
\* the number of blocks constructed in one behaviour
MaxNodes == 4
\* the configured ceiling settings["GEOMETRY_LIMIT"]
GeometryLimit == 2
\* the number of row identities of the primary input of a process call
MaxRows == 2
\* the largest number of bin edges of a call of Classify.process
MaxEdges == 255

----------------------------------------------------------------------------
(* Python values.                                                          *)

NoneV == [t |-> "none"]
StrV(s) == [t |-> "str", s |-> s]
NodeV(i) == [t |-> "node", id |-> i]
BoxV(b) == [t |-> "box", b |-> b]
NanBoxV == [t |-> "nan"]
DictV(d) == [t |-> "dict", d |-> d]
BoolV(b) == [t |-> "bool", bool |-> b]
IntV(i) == [t |-> "int", i |-> i]
\* a float: halves / 2, or the positive float 1e-50 that float32 cannot hold
\* when tiny (then halves is 0)
FloatV(halves, tiny) == [t |-> "float", halves |-> halves, tiny |-> tiny]
\* a list of numbers, and the other things a caller may pass for a list
ListV(l) == [t |-> "list", l |-> l]

IsNone(v) == v.t = "none"

\* a raised exception, as the result of the call that raised it
Raise(e) == [error |-> e]
IsError(r) == "error" \in DOMAIN r

Min2(a, b) == IF a <= b THEN a ELSE b
Max2(a, b) == IF a >= b THEN a ELSE b
SetMin(S) == CHOOSE m \in S : \A n \in S : m <= n
SetMax(S) == CHOOSE m \in S : \A n \in S : m >= n

----------------------------------------------------------------------------
(* The geometry engine (shapely / geopandas), on a grid: a geometry is a   *)
(* set of closed unit cells <<x, y>>, the cell covering [x,x+1] x [y,y+1]. *)

Cells == (0 .. GridW - 1) \X (0 .. GridH - 1)

\* shapely.geometry.box(x1, y1, x2, y2) as the cells it covers
CellsOf(b) == {c \in Cells : /\ b[1] <= c[1] /\ c[1] + 1 <= b[3]
                             /\ b[2] <= c[2] /\ c[2] + 1 <= b[4]}

\* geometry.bounds of a non-empty geometry
Bounds(g) == << SetMin({c[1] : c \in g}), SetMin({c[2] : c \in g}),
                SetMax({c[1] : c \in g}) + 1, SetMax({c[2] : c \in g}) + 1 >>

\* two closed boxes share a point
BoxesTouch(a, b) == /\ a[1] <= b[3] /\ b[1] <= a[3]
                    /\ a[2] <= b[4] /\ b[2] <= a[4]

\* geometry.intersects(box): closed sets, so touching counts
Intersects(g, b) == \E c \in g : BoxesTouch(<<c[1], c[2], c[1] + 1, c[2] + 1>>, b)

\* geometry.centroid.within(box): the centroid lies in the interior
CentroidWithin(g, b) ==
    LET n == Cardinality(g)
        RECURSIVE Sum(_, _)
        Sum(S, k) == IF S = {} THEN 0
                     ELSE LET c == CHOOSE c \in S : TRUE
                          IN (2 * c[k] + 1) + Sum(S \ {c}, k)
    IN /\ g # {}
       /\ 2 * n * b[1] < Sum(g, 1) /\ Sum(g, 1) < 2 * n * b[3]
       /\ 2 * n * b[2] < Sum(g, 2) /\ Sum(g, 2) < 2 * n * b[4]

----------------------------------------------------------------------------
(* Feature tables (GeoDataFrame): [columns, index, rows]; a row is         *)
(* [id, geometry, a], its id the index (row identity), a its one property  *)
(* column; index is the name of the index.  A missing geometry (None / NaN *)
(* in a GeoSeries) is NoGeom.                                              *)

NoGeom == {<<-1, -1>>}

\* gpd.GeoDataFrame([]): no rows, no columns, an unnamed index
EmptyFrame == [columns |-> {}, index |-> "", rows |-> <<>>]

\* the frame of a file after f.set_index(id_field)
Frame(rows) == [columns |-> {"geometry", "a"}, index |-> "id", rows |-> rows]

Ids(tbl) == {tbl.rows[i].id : i \in DOMAIN tbl.rows}
RowOf(tbl, id) == tbl.rows[CHOOSE i \in DOMAIN tbl.rows : tbl.rows[i].id = id]

PROJ == "EPSG:28992"

Urls == {"a", "b"}

Row(id, g, a) == [id |-> id, geometry |-> g, a |-> a]

\* the layers a file on disk may hold
Layer0 == <<>>
Layer1 == << Row(1, {<<0, 0>>}, 10) >>
Layer2 == << Row(1, {<<0, 0>>, <<0, 1>>}, 10), Row(2, {<<1, 1>>}, 20) >>
Layer3 == << Row(2, {<<1, 0>>, <<1, 1>>}, 5), Row(3, {<<0, 1>>}, 7), Row(1, {<<0, 1>>}, 7) >>

\* the contents of the disk: what each url holds
FileWorlds ==
    { [u \in Urls |-> IF u = "a" THEN Layer2 ELSE Layer3],
      [u \in Urls |-> IF u = "a" THEN Layer1 ELSE Layer0],
      [u \in Urls |-> IF u = "a" THEN Layer0 ELSE Layer3] }

----------------------------------------------------------------------------
(* Requests.                                                               *)

\* dict.get(key): the value, or None_ when the key is absent
HasKey(d, k) == k \in DOMAIN d
SetKey(d, k, v) == [x \in DOMAIN d \cup {k} |-> IF x = k THEN v ELSE d[x]]

\* str.lower() on the mode spellings of the model
Lower(s) == CASE s = "EXTENT" -> "extent"
              [] s = "Intersects" -> "intersects"
              [] OTHER -> s

\* the field names that hold a Django-like lookup ("__" in field)
LookupFields == {"a__gt"}

GeometryModes == {"intersects", "centroid", "extent", "bogus"}

RequestBoxes == { <<0, 0, GridW, GridH>>, <<1, 0, GridW, GridH>> }

\* the geometry requests of the top-level callers
GeometryRequests ==
    { [mode |-> m, geometry |-> BoxV(b), projection |-> PROJ] :
        m \in GeometryModes, b \in RequestBoxes }

----------------------------------------------------------------------------
(* Blocks.  nodes[i] = [kind, args], args the tuple Block.__init__ keeps.  *)

GeometryKinds ==
    {"GeometryFileSource", "MockGeometry", "SetSeriesBlock", "Difference", "Intersection"}
SeriesKinds == {"GetSeriesBlock", "Equal"}
RasterKinds == {"Rasterize", "Reclassify", "Classify", "Mask"}

NodeIds == DOMAIN nodes
Kind(i) == nodes[i].kind
Args(i) == nodes[i].args

\* isinstance(v, GeometryBlock)
IsGeometryBlock(v) == v.t = "node" /\ Kind(v.id) \in GeometryKinds
IsSeriesBlock(v) == v.t = "node" /\ Kind(v.id) \in SeriesKinds
IsRasterBlock(v) == v.t = "node" /\ Kind(v.id) \in RasterKinds

\* the values a caller may hand to a constructor
ArgValues == {NodeV(i) : i \in NodeIds} \cup {NoneV, StrV("a"), IntV(5)}

\* no get_data call was the last operation
NoCall == [root |-> 0, log |-> <<>>]

\* the caller is between two operations: the last one has returned
Idle == raised = "" /\ call = NoCall

\* Block.__init__ after a constructor's checks passed
Built(kind, args) ==
    /\ Idle
    /\ Len(nodes) < MaxNodes
    /\ nodes' = Append(nodes, [kind |-> kind, args |-> args])
    /\ raised' = ""
    /\ call' = NoCall
    /\ UNCHANGED files

\* a constructor raised: no block is created
Failed(e) ==
    /\ Idle
    /\ raised' = e
    /\ call' = NoCall
    /\ UNCHANGED <<nodes, files>>

\* the source property of BaseSingle, GetSeriesBlock, SetSeriesBlock
BaseSingle_source(i) == Args(i)[1].id

RECURSIVE columns(_)

\* a faulty columns property: an assign-columns block declares the names it
\* assigns and drops those of its source
columns_assigned_only(i) ==
    IF Kind(i) = "SetSeriesBlock"
    THEN [cols |-> {Args(i)[k].s : k \in {k \in DOMAIN Args(i) : k % 2 = 0}}]
    ELSE IF Kind(i) = "MockGeometry" THEN [cols |-> {"geometry", "a"}]
    ELSE IF Kind(i) \in {"Difference", "Intersection"} THEN columns(BaseSingle_source(i))
    ELSE Raise("NotImplementedError")

\* the columns property: [cols |-> set] or a raised exception
columns(i) ==
    CASE Kind(i) = "GeometryFileSource" -> Raise("NotImplementedError")
      [] Kind(i) = "MockGeometry" -> [cols |-> {"geometry", "a"}]
      [] Kind(i) = "SetSeriesBlock" ->
           LET src == columns(BaseSingle_source(i))
           IN IF IsError(src) THEN src
              ELSE [cols |-> src.cols \cup
                        {Args(i)[k].s : k \in {k \in DOMAIN Args(i) : k % 2 = 0}}]
      [] Kind(i) \in {"Difference", "Intersection"} -> columns(BaseSingle_source(i))
      [] OTHER -> Raise("AttributeError")

GeometryFileSource_init(url) ==
    Built("GeometryFileSource", <<StrV(url), NoneV, StrV("id")>>)

\* a geometry source that declares its columns and reads its rows as
\* GeometryFileSource does
MockGeometry_init(url) ==
    Built("MockGeometry", <<StrV(url), NoneV, StrV("id")>>)

\* a faulty constructor: the name is not looked up in source.columns
GetSeriesBlock_init_unchecked(source, name) ==
    IF ~IsGeometryBlock(source) THEN Failed("TypeError")
    ELSE IF name.t # "str" THEN Failed("TypeError")
    ELSE Built("GetSeriesBlock", <<source, name>>)

GetSeriesBlock_init(source, name) ==
    IF ~IsGeometryBlock(source) THEN Failed("TypeError")
    ELSE IF name.t # "str" THEN Failed("TypeError")
    ELSE IF IsError(columns(source.id)) THEN Failed(columns(source.id).error)
    ELSE IF name.s \notin columns(source.id).cols THEN Failed("KeyError")
    ELSE Built("GetSeriesBlock", <<source, name>>)

\* SetSeriesBlock(source, column, value, *args)
SetSeriesBlock_init(source, column, value, args) ==
    LET all == <<column, value>> \o args
    IN IF ~IsGeometryBlock(source) THEN Failed("TypeError")
       ELSE IF Len(all) % 2 # 0 THEN Failed("ValueError")
       ELSE IF \E k \in DOMAIN all : k % 2 = 1 /\ all[k].t # "str" THEN Failed("TypeError")
       ELSE Built("SetSeriesBlock", <<source>> \o all)

\* SeriesBlock.__eq__(self, other): a new block, not a boolean
SeriesBlock_eq(self, other) ==
    IF other.t = "node" /\ ~IsSeriesBlock(other) THEN Failed("TypeError")
    ELSE Built("Equal", <<self, other>>)

BaseSingle_init(kind, source, rest) ==
    IF ~IsGeometryBlock(source) THEN Failed("TypeError")
    ELSE Built(kind, <<source>> \o rest)

Difference_init(source, other) ==
    IF ~IsGeometryBlock(other) THEN Failed("TypeError")
    ELSE BaseSingle_init("Difference", source, <<other>>)

Intersection_init(source, other) ==
    IF IsGeometryBlock(other) THEN Failed("NotImplementedError")
    ELSE IF ~IsNone(other) THEN Failed("NotImplementedError")
    ELSE BaseSingle_init("Intersection", source, <<other>>)

----------------------------------------------------------------------------
(* GeometryFileSource (geometry/sources.py).                               *)

\* a (source, request) pair of get_sources_and_requests; request None is
\* the no-request marker
Pair(src, req) == [src |-> src, req |-> req]

\* what a plan returns: its pairs, or the exception it raised
Pairs(ps) == [pairs |-> ps]

GeometryFileSource_get_sources_and_requests(n, request) ==
    LET r1 == IF ~HasKey(request, "filters") THEN SetKey(request, "filters", <<>>)
              ELSE request
        mode == Lower(IF HasKey(r1, "mode") THEN r1.mode ELSE "intersects")
        r2 == SetKey(r1, "mode", mode)
        r3 == SetKey(r2, "layer", Args(n)[2])
        r4 == SetKey(r3, "id_field", Args(n)[3])
    IN IF \E k \in DOMAIN r1.filters : r1.filters[k].field \in LookupFields
       THEN Raise("ValueError")
       ELSE IF mode \notin {"extent", "intersects", "centroid"}
       THEN Raise("ValueError")
       ELSE Pairs(<< Pair(Args(n)[1], NoneV), Pair(DictV(r4), NoneV) >>)

\* GeoDataFrame.from_file(path, bbox=filt_geom, layer=...): the rows of the
\* layer whose bounding box meets the bounding box of the requested geometry;
\* no box meets the bounds of box(nan, nan, nan, nan)
from_file(url, geometry) ==
    IF geometry.t # "box" THEN <<>>
    ELSE SelectSeq(files[url], LAMBDA r : BoxesTouch(Bounds(r.geometry), geometry.b))

\* f[mask] for the property filters: rows whose field equals value, for the
\* fields that are columns of f
ApplyFilters(rows, filters) ==
    SelectSeq(rows, LAMBDA r :
        \A k \in DOMAIN filters :
            filters[k].field = "a" => r.a = filters[k].value)

\* f[(widths > min_size) | (heights > min_size)], min_size = <<num, den>>
ApplyMinSize(rows, min_size) ==
    SelectSeq(rows, LAMBDA r :
        LET b == Bounds(r.geometry)
        IN \/ (b[3] - b[1]) * min_size[2] > min_size[1]
           \/ (b[4] - b[2]) * min_size[2] > min_size[1])

\* tuple(f.total_bounds): the box around all rows, NaNs when there is none
total_bounds(rows) ==
    IF rows = <<>> THEN NanBoxV
    ELSE BoxV(Bounds(UNION {rows[i].geometry : i \in DOMAIN rows}))

GeometryFileSource_process(url, request) ==
    LET req == request.d
        f0 == from_file(url.s, req.geometry)
        f1 == ApplyFilters(f0, req.filters)
        min_size == IF HasKey(req, "min_size") THEN req.min_size ELSE <<>>
        f2 == IF min_size # <<>> /\ min_size[1] # 0 THEN ApplyMinSize(f1, min_size) ELSE f1
        f3 == IF req.mode = "centroid"
              THEN SelectSeq(f2, LAMBDA r : CentroidWithin(r.geometry, req.geometry.b))
              ELSE SelectSeq(f2, LAMBDA r : Intersects(r.geometry, req.geometry.b))
        limit == IF HasKey(req, "limit") THEN req.limit ELSE <<>>
    IN IF f0 = <<>>
       THEN IF req.mode = "extent"
            THEN DictV([projection |-> req.projection, extent |-> NoneV])
            ELSE DictV([projection |-> req.projection, features |-> EmptyFrame])
       ELSE IF req.mode = "extent"
       THEN DictV([projection |-> req.projection, extent |-> total_bounds(f3)])
       ELSE IF limit # <<>> /\ limit[1] # 0 /\ Len(f3) > limit[1]
       THEN DictV([projection |-> req.projection,
                   features |-> Frame(SubSeq(f3, 1, limit[1]))])
       ELSE IF limit = <<>> /\ Len(f3) > GeometryLimit
       THEN Raise("RuntimeError")
       ELSE DictV([projection |-> req.projection, features |-> Frame(f3)])

----------------------------------------------------------------------------
(* Intersection (geometry/set_operations.py).                              *)

\* a faulty plan: the two pairs in the opposite order
Intersection_plan_swapped(n, request) ==
    Pairs(<< Pair(request.geometry, NoneV), Pair(Args(n)[1], DictV(request)) >>)

\* a faulty plan: the geometry paired with the request, not with None
Intersection_plan_paired(n, request) ==
    Pairs(<< Pair(Args(n)[1], DictV(request)), Pair(request.geometry, DictV(request)) >>)

Intersection_get_sources_and_requests(n, request) ==
    IF ~HasKey(request, "geometry") THEN Raise("KeyError")
    ELSE Pairs(<< Pair(Args(n)[1], DictV(request)), Pair(request.geometry, NoneV) >>)

\* features.set_geometry(features.geometry.intersection(geometry))
ClipRows(rows, b) ==
    [i \in DOMAIN rows |->
        [rows[i] EXCEPT !.geometry =
            IF @ = NoGeom THEN NoGeom ELSE @ \cap CellsOf(b)]]

Intersection_process(data, geometry) ==
    IF data.t # "dict" THEN Raise("TypeError")
    ELSE IF HasKey(data.d, "features")
    THEN IF "geometry" \notin data.d.features.columns THEN Raise("AttributeError")
         ELSE IF geometry.t # "box" THEN Raise("TypeError")
         ELSE DictV([features |-> [data.d.features EXCEPT
                                      !.rows = ClipRows(@, geometry.b)],
                     projection |-> data.d.projection])
    ELSE IF HasKey(data.d, "extent")
    THEN IF IsNone(data.d.extent) THEN Raise("TypeError")
         ELSE IF geometry.t \notin {"box", "nan"} THEN Raise("AttributeError")
         \* max(nan, x) = min(nan, x) = nan and max(x, nan) = min(x, nan) = x
         ELSE IF data.d.extent = NanBoxV \/ geometry.t = "nan"
         THEN DictV([extent |-> data.d.extent, projection |-> data.d.projection])
         ELSE LET bbox1 == data.d.extent.b
                  bbox2 == geometry.b
              IN DictV([extent |-> BoxV(<< Max2(bbox1[1], bbox2[1]),
                                           Max2(bbox1[2], bbox2[2]),
                                           Min2(bbox1[3], bbox2[3]),
                                           Min2(bbox1[4], bbox2[4]) >>),
                        projection |-> data.d.projection])
    ELSE NoneV

----------------------------------------------------------------------------
(* Raster values.  A grid is a function from the pixels <<i, j>> of a      *)
(* width x height window to cell values: BoolV, IntV, or MaxV(dtype), the  *)
(* largest value of a dtype (get_dtype_max).                               *)

MaxV(dtype) == [t |-> "max", dtype |-> dtype]

\* utils.get_dtype_max(dtype)
get_dtype_max(dtype) == MaxV(dtype)

\* utils.get_uint_dtype(length): the smallest unsigned integer dtype that
\* holds length different values
get_uint_dtype(length) ==
    IF length <= 256 THEN "uint8"
    ELSE IF length <= 65536 THEN "uint16"
    ELSE "uint32"

Pixels(width, height) == (0 .. width - 1) \X (0 .. height - 1)

\* np.full(shape, fill, dtype=dtype): None and False are the same bool
full(width, height, fill, dtype) ==
    [p \in Pixels(width, height) |->
        IF dtype = "bool" THEN BoolV(fill.t = "bool" /\ fill.bool) ELSE fill]

\* value.astype(dtype) of one cell
astype(v, dtype) ==
    CASE v.t = "bool" /\ dtype # "bool" -> IntV(IF v.bool THEN 1 ELSE 0)
      [] v.t = "int" /\ dtype = "bool" -> BoolV(v.i # 0)
      [] v.t = "max" /\ dtype = "bool" -> BoolV(TRUE)
      [] OTHER -> v

\* the largest values of the small unsigned dtypes
UintMax(dtype) == IF dtype = "uint8" THEN 255 ELSE 65535

\* the values of the model that are numbers of the model's integer range
IsSmall(v) ==
    \/ v.t \in {"bool", "int"}
    \/ v.t = "float" /\ ~v.tiny
    \/ v.t = "max" /\ v.dtype \in {"uint8", "uint16"}

\* twice the number that a small value is
Twice(v) ==
    CASE v.t = "bool" -> IF v.bool THEN 2 ELSE 0
      [] v.t = "int" -> 2 * v.i
      [] v.t = "float" -> v.halves
      [] v.t = "max" -> 2 * UintMax(v.dtype)

\* v == w of two cells or scalars, as numpy compares them
NumEq(v, w) ==
    CASE v.t = "none" \/ w.t = "none" -> FALSE
      [] IsSmall(v) /\ IsSmall(w) -> Twice(v) = Twice(w)
      [] OTHER -> v = w

RasterModes == {"vals", "time", "meta", "bogus"}

\* the raster requests of the top-level callers: unit pixels on the grid,
\* and a window that is reversed on the x axis
RasterRequests ==
    { [mode |-> m, bbox |-> <<0, 0, GridW, GridH>>, width |-> GridW, height |-> GridH,
       projection |-> PROJ] : m \in RasterModes }
    \cup { [mode |-> "vals", bbox |-> <<GridW, 0, 0, GridH>>, width |-> GridW,
            height |-> GridH, projection |-> PROJ] }

----------------------------------------------------------------------------
(* Rasterize (raster/misc.py).                                             *)

\* RasterBlock.DEFAULT_ORIGIN, a datetime
DEFAULT_ORIGIN == [t |-> "datetime"]

Rasterize_init(source, column_name, dtype, limit) ==
    IF ~IsGeometryBlock(source) THEN Failed("TypeError")
    ELSE IF ~IsNone(column_name) /\ column_name.t # "str" THEN Failed("TypeError")
    ELSE IF ~IsNone(limit) /\ limit.t = "int" /\ limit.i # 0 /\ limit.i < 1
    THEN Failed("ValueError")
    ELSE IF ~IsNone(limit) /\ limit.t # "int" THEN Failed("TypeError")
    ELSE Built("Rasterize",
               << source, column_name,
                  IF IsNone(dtype) THEN StrV(IF IsNone(column_name) THEN "bool" ELSE "int32")
                  ELSE dtype,
                  limit >>)

Rasterize_dtype(n) == Args(n)[3].s

Rasterize_fillvalue(n) ==
    IF Rasterize_dtype(n) = "bool" THEN NoneV ELSE get_dtype_max(Rasterize_dtype(n))

\* a faulty plan: the bbox of a vals request is not looked at
Rasterize_plan_unchecked(n, request) ==
    IF request.mode = "time"
    THEN Pairs(<< Pair(DEFAULT_ORIGIN, NoneV), Pair(DictV([mode |-> "time"]), NoneV) >>)
    ELSE IF request.mode = "meta"
    THEN Pairs(<< Pair(NoneV, NoneV), Pair(DictV([mode |-> "meta"]), NoneV) >>)
    ELSE IF request.mode # "vals" THEN Raise("ValueError")
    ELSE Pairs(<< Pair(Args(n)[1],
                       DictV([mode |-> "intersects",
                              geometry |-> BoxV(request.bbox),
                              projection |-> request.projection,
                              min_size |-> <<>>,
                              limit |-> <<IF IsNone(Args(n)[4]) THEN GeometryLimit
                                          ELSE Args(n)[4].i>>,
                              start |-> NoneV,
                              stop |-> NoneV])),
                  Pair(DictV([mode |-> "vals",
                              column_name |-> Args(n)[2],
                              dtype |-> Rasterize_dtype(n),
                              no_data_value |-> Rasterize_fillvalue(n),
                              width |-> request.width,
                              height |-> request.height,
                              bbox |-> request.bbox]), NoneV) >>)

Rasterize_get_sources_and_requests(n, request) ==
    IF request.mode = "time"
    THEN Pairs(<< Pair(DEFAULT_ORIGIN, NoneV), Pair(DictV([mode |-> "time"]), NoneV) >>)
    ELSE IF request.mode = "meta"
    THEN Pairs(<< Pair(NoneV, NoneV), Pair(DictV([mode |-> "meta"]), NoneV) >>)
    ELSE IF request.mode # "vals" THEN Raise("ValueError")
    ELSE LET x1 == request.bbox[1]
             y1 == request.bbox[2]
             x2 == request.bbox[3]
             y2 == request.bbox[4]
             width == request.width
             height == request.height
             \* min((x2 - x1) / width, (y2 - y1) / height) as <<num, den>>
             min_size == IF x2 = x1 /\ y2 = y1 THEN <<>>
                         ELSE IF (x2 - x1) * height <= (y2 - y1) * width
                         THEN <<x2 - x1, width>>
                         ELSE <<y2 - y1, height>>
             limit == IF IsNone(Args(n)[4]) THEN GeometryLimit ELSE Args(n)[4].i
             geom_request == [mode |-> "intersects",
                              geometry |-> BoxV(request.bbox),
                              projection |-> request.projection,
                              min_size |-> min_size,
                              limit |-> <<limit>>,
                              start |-> NoneV,
                              stop |-> NoneV]
             process_kwargs == [mode |-> "vals",
                                column_name |-> Args(n)[2],
                                dtype |-> Rasterize_dtype(n),
                                no_data_value |-> Rasterize_fillvalue(n),
                                width |-> width,
                                height |-> height,
                                bbox |-> request.bbox]
         IN IF ~((x2 = x1 /\ y2 = y1) \/ (x1 < x2 /\ y1 < y2)) THEN Raise("ValueError")
            ELSE Pairs(<< Pair(Args(n)[1], DictV(geom_request)),
                          Pair(DictV(process_kwargs), NoneV) >>)

\* utils.rasterize_geoseries: burns the rows, in order, into a grid of unit
\* pixels over bbox; values is <<>> (burn True) or one value per row
rasterize_geoseries(rows, values, bbox, width, height) ==
    LET isbool == values = <<>> \/ \A k \in DOMAIN values : values[k].t = "bool"
        ndv == IF isbool THEN NoneV ELSE get_dtype_max("int32")
        covers(k, p) == rows[k].geometry # NoGeom
                        /\ <<bbox[1] + p[1], bbox[2] + p[2]>> \in rows[k].geometry
        last(p) == SetMax({k \in DOMAIN rows : covers(k, p)})
    IN [values |->
          [p \in Pixels(width, height) |->
              IF \E k \in DOMAIN rows : covers(k, p)
              THEN IF values = <<>> THEN BoolV(TRUE) ELSE values[last(p)]
              ELSE IF isbool THEN BoolV(FALSE) ELSE ndv],
        no_data_value |-> ndv]

Rasterize_process(data, process_kwargs) ==
    IF process_kwargs.t # "dict" \/ ~HasKey(process_kwargs.d, "mode") THEN Raise("TypeError")
    ELSE IF process_kwargs.d.mode = "time" THEN DictV([time |-> <<data>>])
    ELSE IF process_kwargs.d.mode = "meta" THEN DictV([meta |-> <<NoneV>>])
    ELSE IF data.t # "dict" THEN Raise("TypeError")
    ELSE IF ~HasKey(data.d, "features") THEN Raise("KeyError")
    ELSE LET kw == process_kwargs.d
             f == data.d.features
             \* f[column_name], else the index, else False (here "absent")
             values == IF IsNone(kw.column_name) THEN <<>>
                       ELSE IF kw.column_name.s = "a" /\ "a" \in f.columns
                       THEN [k \in DOMAIN f.rows |-> IntV(f.rows[k].a)]
                       ELSE IF f.index = kw.column_name.s
                       THEN [k \in DOMAIN f.rows |-> IntV(f.rows[k].id)]
                       ELSE <<>>
             absent == ~IsNone(kw.column_name)
                       /\ ~(kw.column_name.s = "a" /\ "a" \in f.columns)
                       /\ f.index # kw.column_name.s
             result == rasterize_geoseries(f.rows, values, kw.bbox, kw.width, kw.height)
         IN IF Len(f.rows) = 0 \/ absent
            THEN DictV([values |-> full(kw.width, kw.height, kw.no_data_value, kw.dtype),
                        no_data_value |-> kw.no_data_value])
            ELSE DictV([values |->
                          [p \in Pixels(kw.width, kw.height) |->
                              IF result.no_data_value # kw.no_data_value
                                 /\ NumEq(result.values[p], result.no_data_value)
                              THEN kw.no_data_value
                              ELSE astype(result.values[p], kw.dtype)],
                        no_data_value |-> kw.no_data_value])

----------------------------------------------------------------------------
(* Reclassify (raster/misc.py).  data is a tuple of <<from, to>> pairs.    *)

\* the dtype property: the dtype numpy gives the "to" values
Reclassify_dtype(n) == "int64"

Reclassify_fillvalue(n) == get_dtype_max(Reclassify_dtype(n))

\* the dtype property of a raster block
dtype(n) ==
    CASE Kind(n) = "Rasterize" -> Rasterize_dtype(n)
      [] Kind(n) = "Reclassify" -> Reclassify_dtype(n)
      [] Kind(n) = "Classify" -> get_uint_dtype(Len(Args(n)[2].l) + 2)
      [] Kind(n) = "Mask" -> IF Args(n)[2].t = "float" THEN "float32" ELSE "uint8"

Reclassify_init(store, data, select) ==
    IF store.t # "node" \/ Kind(store.id) \notin RasterKinds THEN Failed("AttributeError")
    ELSE IF dtype(store.id) \notin {"bool", "uint8", "int32", "int64"} THEN Failed("TypeError")
    ELSE IF data.t # "pairs" THEN Failed("TypeError")
    ELSE IF \E k, l \in DOMAIN data.p : k # l /\ data.p[k][1] = data.p[l][1]
    THEN Failed("ValueError")
    ELSE IF select.t # "bool" THEN Failed("TypeError")
    ELSE Built("Reclassify", <<store, data, select>>)

Reclassify_get_sources_and_requests(n, request) ==
    LET process_kwargs == [dtype |-> Reclassify_dtype(n),
                           fillvalue |-> Reclassify_fillvalue(n),
                           data |-> Args(n)[2].p,
                           select |-> Args(n)[3].bool]
    IN Pairs(<< Pair(Args(n)[1], DictV(request)), Pair(DictV(process_kwargs), NoneV) >>)

\* a faulty process: select is not looked at, unmapped cells keep their value
Reclassify_process_select_ignored(store_data, process_kwargs) ==
    IF IsNone(store_data) THEN store_data
    ELSE IF ~HasKey(store_data.d, "values") THEN store_data
    ELSE LET kw == process_kwargs.d
             values == store_data.d.values
             data == IF ~IsNone(store_data.d.no_data_value)
                        /\ ~\E k \in DOMAIN kw.data :
                               NumEq(store_data.d.no_data_value, kw.data[k][1])
                     THEN Append(kw.data, <<store_data.d.no_data_value, kw.fillvalue>>)
                     ELSE kw.data
         IN DictV([values |->
                     [p \in DOMAIN values |->
                         IF \E k \in DOMAIN data : NumEq(values[p], data[k][1])
                         THEN data[CHOOSE k \in DOMAIN data : NumEq(values[p], data[k][1])][2]
                         ELSE astype(values[p], kw.dtype)],
                   no_data_value |-> kw.fillvalue])

Reclassify_process(store_data, process_kwargs) ==
    IF IsNone(store_data) THEN store_data
    ELSE IF store_data.t # "dict" THEN Raise("TypeError")
    ELSE IF ~HasKey(store_data.d, "values") THEN store_data
    ELSE IF process_kwargs.t # "dict" \/ ~HasKey(process_kwargs.d, "data") THEN Raise("TypeError")
    ELSE LET kw == process_kwargs.d
             no_data_value == store_data.d.no_data_value
             values == store_data.d.values
             fillvalue == kw.fillvalue
             \* np.append(source, no_data_value), np.append(target, fillvalue)
             data == IF ~IsNone(no_data_value)
                        /\ ~\E k \in DOMAIN kw.data : NumEq(no_data_value, kw.data[k][1])
                     THEN Append(kw.data, <<no_data_value, fillvalue>>)
                     ELSE kw.data
             \* target[np.searchsorted(source, v)] for a v that is in source
             mapped(v) == data[CHOOSE k \in DOMAIN data : NumEq(v, data[k][1])][2]
         IN DictV([values |->
                     [p \in DOMAIN values |->
                         IF \E k \in DOMAIN data : NumEq(values[p], data[k][1])
                         THEN mapped(values[p])
                         ELSE IF kw.select THEN fillvalue
                         ELSE astype(values[p], kw.dtype)],
                   no_data_value |-> fillvalue])

----------------------------------------------------------------------------
(* Classify and Mask (raster/misc.py).  bins is a ListV of integers.       *)

\* a constructor call whose checks passed, held by the caller with its
\* arguments: Block.__init__ keeps kept as the args of the new block
Constructed(fn, args, kind, kept) ==
    /\ Idle
    /\ Len(nodes) < MaxNodes
    /\ nodes' = Append(nodes, [kind |-> kind, args |-> kept])
    /\ raised' = ""
    /\ call' = [root |-> 0, fn |-> fn, args |-> args, res |-> NodeV(Len(nodes) + 1)]
    /\ UNCHANGED files

\* a constructor call that raised, held by the caller with its arguments
Rejected(fn, args, e) ==
    /\ Idle
    /\ raised' = e
    /\ call' = [root |-> 0, fn |-> fn, args |-> args, res |-> Raise(e)]
    /\ UNCHANGED <<nodes, files>>

\* np.diff(bins)
diff(l) == [k \in 1 .. Len(l) - 1 |-> l[k + 1] - l[k]]

Classify_init(store, bins, right) ==
    LET args == <<store, bins, right>>
        bins_diff == diff(bins.l)
    IN IF ~IsRasterBlock(store) THEN Rejected("Classify", args, "TypeError")
       \* hasattr(bins, "__iter__")
       ELSE IF bins.t \notin {"list", "list2", "strs", "str"}
       THEN Rejected("Classify", args, "TypeError")
       \* bins_arr.ndim != 1: a str is 0-dimensional, a list of lists 2-dimensional
       ELSE IF bins.t \in {"list2", "str"} THEN Rejected("Classify", args, "TypeError")
       \* np.issubdtype(bins_arr.dtype, np.number)
       ELSE IF bins.t = "strs" THEN Rejected("Classify", args, "TypeError")
       \* not np.all(bins_diff > 0) or np.all(bins_diff < 0)
       ELSE IF \/ ~(\A k \in DOMAIN bins_diff : bins_diff[k] > 0)
               \/ (\A k \in DOMAIN bins_diff : bins_diff[k] < 0)
       THEN Rejected("Classify", args, "TypeError")
       ELSE Constructed("Classify", args, "Classify", args)

\* np.digitize(v, bins, right) for one cell: the number of edges at or below
\* v (below v when right) for rising edges, the number of edges above v
\* (at or above v when right) for falling edges
digitize(v, bins, right) ==
    LET rising == \A k \in 1 .. Len(bins) - 1 : bins[k] <= bins[k + 1]
        \* the largest value of a wide dtype lies above every edge
        x == IF v.t = "int" THEN v.i ELSE IF v.t = "bool" /\ v.bool THEN 1 ELSE 0
        top == v.t = "max"
    IN IF rising
       THEN Cardinality({k \in DOMAIN bins :
                            top \/ (IF right THEN bins[k] < x ELSE bins[k] <= x)})
       ELSE Cardinality({k \in DOMAIN bins :
                            ~top /\ (IF right THEN bins[k] >= x ELSE bins[k] > x)})

\* a faulty process: the no-data cells keep the index that digitize gave them
Classify_process_unfilled(data, bins, right) ==
    IF IsNone(data) THEN data
    ELSE IF ~HasKey(data.d, "values") THEN data
    ELSE LET dt == get_uint_dtype(Len(bins.l) + 2)
         IN DictV([values |-> [p \in DOMAIN data.d.values |->
                                  IntV(digitize(data.d.values[p], bins.l, right.bool))],
                   no_data_value |-> get_dtype_max(dt)])

Classify_process(data, bins, right) ==
    IF IsNone(data) THEN data
    ELSE IF ~HasKey(data.d, "values") THEN data
    ELSE LET values == data.d.values
             dt == get_uint_dtype(Len(bins.l) + 2)
             fillvalue == get_dtype_max(dt)
             monotonic == \/ \A k \in 1 .. Len(bins.l) - 1 : bins.l[k] <= bins.l[k + 1]
                          \/ \A k \in 1 .. Len(bins.l) - 1 : bins.l[k] >= bins.l[k + 1]
         IN IF ~monotonic THEN Raise("ValueError")
            ELSE DictV([values |->
                          [p \in DOMAIN values |->
                              IF NumEq(values[p], data.d.no_data_value) THEN fillvalue
                              \* an index is at most len(bins): astype(dtype) keeps it
                              ELSE IntV(digitize(values[p], bins.l, right.bool))],
                        no_data_value |-> fillvalue])

\* isinstance(value, (float, int)): a bool is an int
IsNumber(value) == value.t \in {"int", "bool", "float"}

Mask_init(store, value) ==
    IF ~IsNumber(value) THEN Rejected("Mask", <<store, value>>, "TypeError")
    \* BaseSingle.__init__ of raster/base.py
    ELSE IF ~IsRasterBlock(store) THEN Rejected("Mask", <<store, value>>, "TypeError")
    ELSE Constructed("Mask", <<store, value>>, "Mask", <<store, value>>)

\* utils.get_index(values, no_data_value): the cells that hold data
get_index(values, no_data_value) ==
    {p \in DOMAIN values : ~NumEq(values[p], no_data_value)}

\* values[index] = value on an array of dtype uint8 or float32: what the
\* cells hold afterwards.  An int outside 0..255 wraps around in uint8 or
\* raises OverflowError, by the version of numpy; a float that float32
\* cannot tell from 0 is stored as 0.0.
Stored(value, dt) ==
    CASE dt = "float32" ->
           { IF value.t = "float" THEN FloatV(value.halves, FALSE)
             ELSE FloatV(Twice(value), FALSE) }
      [] value.t = "bool" -> { IntV(IF value.bool THEN 1 ELSE 0) }
      [] value.i \in 0 .. UintMax("uint8") -> { value }
      [] OTHER -> { IntV(value.i % (UintMax("uint8") + 1)), Raise("OverflowError") }

\* Mask.process(data, value): the results it may give
Mask_process(data, value) ==
    IF IsNone(data) THEN {data}
    ELSE IF ~HasKey(data.d, "values") THEN {data}
    ELSE LET index == get_index(data.d.values, data.d.no_data_value)
             \* 1 if value == 0 else 0
             fillvalue == IF NumEq(value, IntV(0)) THEN IntV(1) ELSE IntV(0)
             dt == IF value.t = "float" THEN "float32" ELSE "uint8"
             fill == CHOOSE c \in Stored(fillvalue, dt) : TRUE
         IN { IF IsError(cell) THEN cell
              ELSE DictV([values |-> [p \in DOMAIN data.d.values |->
                                         IF p \in index THEN cell ELSE fill],
                          no_data_value |-> fillvalue]) :
              cell \in Stored(value, dt) }

----------------------------------------------------------------------------
(* Series blocks (geometry/base.py).  A series is [t |-> "series", rows],  *)
(* rows a sequence of [id, v]; True and False are 1 and 0.                 *)

SeriesV(rows) == [t |-> "series", rows |-> rows]

\* the value pandas gives a row that a series has no value for
NaN == -9999

\* Block.get_sources_and_requests, inherited: every argument with the request
Block_get_sources_and_requests(n, request) ==
    Pairs([k \in DOMAIN Args(n) |-> Pair(Args(n)[k], DictV(request))])

\* a row's value in a column
Cell(r, name) == r[name]

\* a faulty process: the column is read without looking for it first
GetSeriesBlock_process_unguarded(data, name) ==
    IF data.t # "dict" THEN Raise("TypeError")
    ELSE IF ~HasKey(data.d, "features") THEN Raise("KeyError")
    ELSE IF name.s \notin data.d.features.columns THEN Raise("KeyError")
    ELSE SeriesV([i \in DOMAIN data.d.features.rows |->
                    [id |-> data.d.features.rows[i].id,
                     v |-> Cell(data.d.features.rows[i], name.s)]])

GetSeriesBlock_process(data, name) ==
    IF data.t # "dict" THEN Raise("TypeError")
    ELSE IF ~HasKey(data.d, "features") THEN SeriesV(<<>>)
    ELSE IF name.s \notin data.d.features.columns THEN SeriesV(<<>>)
    ELSE SeriesV([i \in DOMAIN data.d.features.rows |->
                    [id |-> data.d.features.rows[i].id,
                     v |-> Cell(data.d.features.rows[i], name.s)]])

\* features[column] = value: a series is aligned on the index, a scalar is
\* given to every row
SetColumn(features, column, value) ==
    LET at(id) == IF value.t = "int" THEN value.i
                  ELSE IF \E j \in DOMAIN value.rows : value.rows[j].id = id
                  THEN value.rows[CHOOSE j \in DOMAIN value.rows : value.rows[j].id = id].v
                  ELSE NaN
    IN [columns |-> features.columns \cup {column},
        index |-> features.index,
        rows |-> [i \in DOMAIN features.rows |->
                    [f \in DOMAIN features.rows[i] \cup {column} |->
                        IF f = column THEN at(features.rows[i].id)
                        ELSE features.rows[i][f]]]]

RECURSIVE SetColumns(_, _, _)
\* for column, value in zip(col_val_pairs[::2], col_val_pairs[1::2]):
\*     features[column] = value
SetColumns(features, col_val_pairs, k) ==
    IF 2 * k > Len(col_val_pairs) THEN features
    ELSE SetColumns(SetColumn(features, col_val_pairs[2 * k - 1].s, col_val_pairs[2 * k]),
                    col_val_pairs, k + 1)

SetSeriesBlock_process(data, col_val_pairs) ==
    IF data.t # "dict" THEN Raise("TypeError")
    ELSE IF ~HasKey(data.d, "features") \/ Len(data.d.features.rows) = 0 THEN data
    ELSE IF \E k \in DOMAIN col_val_pairs :
               k % 2 = 0 /\ col_val_pairs[k].t \notin {"int", "series"}
    THEN Raise("ValueError")
    ELSE DictV([features |-> SetColumns(data.d.features, col_val_pairs, 1),
                projection |-> data.d.projection])

\* Equal.process(a, b): row by row on the rows both operands have; a scalar
\* operand is compared with every row
Equal_process(a, b) ==
    IF a.t # "series" \/ b.t \notin {"series", "int"} THEN Raise("TypeError")
    ELSE LET has(j) == b.t = "int" \/ \E k \in DOMAIN b.rows : b.rows[k].id = a.rows[j].id
             other(j) == IF b.t = "int" THEN b.i
                         ELSE b.rows[CHOOSE k \in DOMAIN b.rows :
                                        b.rows[k].id = a.rows[j].id].v
             kept == SelectSeq([j \in DOMAIN a.rows |-> j], has)
         IN SeriesV([i \in DOMAIN kept |->
                        [id |-> a.rows[kept[i]].id,
                         v |-> IF a.rows[kept[i]].v = other(kept[i]) THEN 1 ELSE 0]])

----------------------------------------------------------------------------
(* Difference.process (geometry/set_operations.py).                        *)

\* b["geometry"].reindex(a_series.index): b's geometry per row of a, missing
\* where b has no row of that identity
Reindex(b, a) ==
    [i \in DOMAIN a.rows |->
        IF a.rows[i].id \in Ids(b) THEN RowOf(b, a.rows[i].id).geometry ELSE NoGeom]

\* a_series.difference(b_series), row by row; missing where either is missing
SeriesDifference(a_series, b_series) ==
    [i \in DOMAIN a_series |->
        IF a_series[i] = NoGeom \/ b_series[i] = NoGeom THEN NoGeom
        ELSE a_series[i] \ b_series[i]]

\* a faulty variant: the rows missing in b are not put back
NothingReinserted(result_series, a_series, b_series) == result_series

\* result_series[missing_in_b] = a_series[missing_in_b]
ReinsertMissing(result_series, a_series, b_series) ==
    [i \in DOMAIN result_series |->
        IF b_series[i] = NoGeom THEN a_series[i] ELSE result_series[i]]

Difference_process(source_data, other_data) ==
    IF source_data.t # "dict" THEN Raise("AttributeError")
    ELSE IF IsNone(other_data)
    THEN IF HasKey(source_data.d, "empty") /\ source_data.d.empty
         THEN DictV([features |-> EmptyFrame, projection |-> source_data.d.projection])
         ELSE source_data
    ELSE IF other_data.t # "dict" THEN Raise("TypeError")
    ELSE IF ~HasKey(source_data.d, "features") \/ ~HasKey(other_data.d, "features")
    THEN Raise("KeyError")
    ELSE LET a == source_data.d.features
             b == other_data.d.features
             a_series == [i \in DOMAIN a.rows |-> a.rows[i].geometry]
             b_series == Reindex(b, a)
             result_series == ReinsertMissing(SeriesDifference(a_series, b_series),
                                              a_series, b_series)
         IN IF Len(a.rows) = 0 \/ Len(b.rows) = 0 THEN source_data
            ELSE DictV([features |-> [a EXCEPT !.rows =
                                        [i \in DOMAIN a.rows |->
                                            [a.rows[i] EXCEPT !.geometry = result_series[i]]]],
                        projection |-> source_data.d.projection])

----------------------------------------------------------------------------
(* The evaluator (specification 4.2): evaluate(node, request) with a       *)
(* call-scoped cache.  st is the state of one walk:                        *)
(*   cache   the entries of the running get_data call                      *)
(*   log     every plan, combine and cache hit so far, in order            *)
(*   scope   the number of the running get_data call                       *)
(*   nscopes the get_data calls started so far                             *)
(*   nest    how many plans are running around this point                  *)

RECURSIVE StructEq(_, _)
\* same kind and element-wise equal arguments
StructEq(i, j) ==
    /\ Kind(i) = Kind(j)
    /\ Len(Args(i)) = Len(Args(j))
    /\ \A k \in DOMAIN Args(i) :
          LET x == Args(i)[k]
              y == Args(j)[k]
          IN /\ x.t = y.t
             /\ IF x.t = "node" THEN StructEq(x.id, y.id) ELSE x = y

\* a faulty key: the identity of the block object
TokenByIdentity(i) == i

\* the node part of a cache key: the first block built with this structure
Token(i) == CHOOSE j \in NodeIds : StructEq(j, i) /\ \A k \in NodeIds : StructEq(k, i) => j <= k

NewWalk == [cache |-> <<>>, log |-> <<>>, scope |-> 1, nscopes |-> 1, nest |-> 0]

Logged(st, e) ==
    [st EXCEPT !.log = Append(@, e @@ [scope |-> st.scope, nest |-> st.nest])]

RECURSIVE evaluate(_, _, _), Resolve(_, _, _, _), get_sources_and_requests(_, _, _)

\* Block.get_data(**request): a top-level evaluation with a cache of its own
get_data(n, request, st) ==
    LET inner == evaluate(n, request,
                          [st EXCEPT !.cache = <<>>, !.scope = st.nscopes + 1,
                                     !.nscopes = st.nscopes + 1])
    IN [res |-> inner.res,
        st |-> [inner.st EXCEPT !.cache = st.cache, !.scope = st.scope]]

\* a faulty plan: no extent shortcut, both inputs get the request
Difference_plan_no_shortcut(n, request, st) ==
    [out |-> Pairs(<< Pair(Args(n)[1], DictV(request)), Pair(Args(n)[2], DictV(request)) >>),
     st |-> st]

Difference_get_sources_and_requests(n, request, st) ==
    IF request.mode = "extent"
    THEN [out |-> Pairs(<< Pair(Args(n)[1], DictV(request)) >>), st |-> st]
    ELSE LET extent_request == SetKey(request, "mode", "extent")
             got == get_data(Args(n)[1].id, extent_request,
                             [st EXCEPT !.nest = @ + 1])
             st1 == [got.st EXCEPT !.nest = st.nest]
         IN IF IsError(got.res) THEN [out |-> got.res, st |-> st1]
            ELSE IF ~HasKey(got.res.d, "extent") THEN [out |-> Raise("KeyError"), st |-> st1]
            ELSE LET extent == got.res.d.extent
                 IN IF IsNone(extent)
                    THEN [out |-> Pairs(<< Pair(DictV([empty |-> TRUE,
                                                       projection |-> request.projection]),
                                                NoneV) >>),
                          st |-> st1]
                    ELSE [out |-> Pairs(<< Pair(Args(n)[1], DictV(request)),
                                           Pair(Args(n)[2],
                                                DictV(SetKey(request, "geometry", extent))) >>),
                          st |-> st1]

get_sources_and_requests(n, request, st) ==
    CASE Kind(n) = "GeometryFileSource" ->
           [out |-> GeometryFileSource_get_sources_and_requests(n, request), st |-> st]
      [] Kind(n) = "Intersection" ->
           [out |-> Intersection_get_sources_and_requests(n, request), st |-> st]
      [] Kind(n) = "Difference" -> Difference_get_sources_and_requests(n, request, st)
      [] Kind(n) = "Rasterize" ->
           [out |-> Rasterize_get_sources_and_requests(n, request), st |-> st]
      [] Kind(n) = "Reclassify" ->
           [out |-> Reclassify_get_sources_and_requests(n, request), st |-> st]
      [] Kind(n) = "MockGeometry" ->
           [out |-> GeometryFileSource_get_sources_and_requests(n, request), st |-> st]
      [] Kind(n) \in {"GetSeriesBlock", "SetSeriesBlock", "Equal"} ->
           [out |-> Block_get_sources_and_requests(n, request), st |-> st]

\* node.process(*args), bound to its parameters by position
process(n, args) ==
    CASE Kind(n) = "GeometryFileSource" ->
           IF Len(args) # 2 \/ args[1].t # "str" \/ args[2].t # "dict" THEN Raise("TypeError")
           ELSE GeometryFileSource_process(args[1], args[2])
      [] Kind(n) = "Intersection" ->
           IF Len(args) # 2 THEN Raise("TypeError")
           ELSE Intersection_process(args[1], args[2])
      [] Kind(n) = "Difference" ->
           IF Len(args) \notin {1, 2} THEN Raise("TypeError")
           ELSE Difference_process(args[1], IF Len(args) = 2 THEN args[2] ELSE NoneV)
      [] Kind(n) = "Rasterize" ->
           IF Len(args) # 2 THEN Raise("TypeError")
           ELSE Rasterize_process(args[1], args[2])
      [] Kind(n) = "Reclassify" ->
           IF Len(args) # 2 THEN Raise("TypeError")
           ELSE Reclassify_process(args[1], args[2])
      [] Kind(n) = "MockGeometry" ->
           IF Len(args) # 2 \/ args[1].t # "str" \/ args[2].t # "dict" THEN Raise("TypeError")
           ELSE GeometryFileSource_process(args[1], args[2])
      [] Kind(n) = "GetSeriesBlock" ->
           IF Len(args) # 2 THEN Raise("TypeError")
           ELSE GetSeriesBlock_process(args[1], args[2])
      [] Kind(n) = "SetSeriesBlock" ->
           IF Len(args) < 1 THEN Raise("TypeError")
           ELSE SetSeriesBlock_process(args[1], Tail(args))
      [] Kind(n) = "Equal" ->
           IF Len(args) # 2 THEN Raise("TypeError")
           ELSE Equal_process(args[1], args[2])

\* step 4: resolve the pairs from position k on, in order
Resolve(n, pairs, k, acc) ==
    IF k > Len(pairs) \/ IsError(acc.res) THEN acc
    ELSE LET p == pairs[k]
         IN IF IsNone(p.req)
            THEN Resolve(n, pairs, k + 1, [acc EXCEPT !.args = Append(@, p.src)])
            \* step 1 of evaluate(input, sub-request): a literal is returned unchanged
            ELSE IF p.src.t # "node"
            THEN Resolve(n, pairs, k + 1,
                         [acc EXCEPT !.args = Append(@, p.src),
                                     !.st = Logged(@, [ev |-> "literal", node |-> n,
                                                       pos |-> k])])
            ELSE LET got == evaluate(p.src.id, p.req.d, acc.st)
                 IN Resolve(n, pairs, k + 1,
                            [args |-> Append(acc.args, got.res), st |-> got.st,
                             res |-> IF IsError(got.res) THEN got.res ELSE acc.res])

evaluate(n, request, st) ==
    LET hits == {i \in DOMAIN st.cache :
                    st.cache[i].node = Token(n) /\ st.cache[i].req = request}
    IN IF hits # {}
       THEN [res |-> st.cache[CHOOSE i \in hits : TRUE].res,
             st |-> Logged(st, [ev |-> "hit", node |-> n, req |-> request])]
       ELSE LET plan == get_sources_and_requests(n, request, st)
                st1 == Logged(plan.st, [ev |-> "plan", node |-> n, req |-> request,
                                        out |-> plan.out])
            IN IF IsError(plan.out) THEN [res |-> plan.out, st |-> st1]
               ELSE LET rs == Resolve(n, plan.out.pairs, 1,
                                      [args |-> <<>>, st |-> st1, res |-> NoneV])
                    IN IF IsError(rs.res) THEN [res |-> rs.res, st |-> rs.st]
                       ELSE LET out == process(n, rs.args)
                                st2 == Logged(rs.st, [ev |-> "combine", node |-> n,
                                                      req |-> request,
                                                      pairs |-> plan.out.pairs,
                                                      args |-> rs.args, res |-> out])
                            IN [res |-> out,
                                st |-> IF IsError(out) THEN st2
                                       ELSE [st2 EXCEPT !.cache =
                                               Append(@, [node |-> Token(n), req |-> request,
                                                          res |-> out])]]

----------------------------------------------------------------------------
(* The actions.                                                            *)

Init ==
    /\ nodes = <<>>
    /\ files \in FileWorlds
    /\ raised = ""
    /\ call = NoCall

NewGeometryFileSource == \E url \in Urls : GeometryFileSource_init(url)

NewDifference == \E source \in ArgValues, other \in ArgValues : Difference_init(source, other)

NewIntersection == \E source \in ArgValues, other \in ArgValues : Intersection_init(source, other)

NewRasterize ==
    \E source \in ArgValues, column_name \in {NoneV, StrV("a"), IntV(5)},
       limit \in {NoneV, IntV(1), IntV(-1)} :
        Rasterize_init(source, column_name, NoneV, limit)

\* the [from, to] lists of the callers of Reclassify
ReclassifyData ==
    { [t |-> "pairs", p |-> << <<IntV(10), IntV(1)>>, <<IntV(20), IntV(2)>> >>],
      [t |-> "pairs", p |-> << <<IntV(10), IntV(1)>>, <<IntV(10), IntV(2)>> >>] }

NewReclassify ==
    \E store \in ArgValues, data \in ReclassifyData, select \in {BoolV(FALSE), BoolV(TRUE)} :
        Reclassify_init(store, data, select)

\* the requests a caller sends to block root
RequestsFor(root) ==
    IF Kind(root) \in RasterKinds THEN RasterRequests ELSE GeometryRequests

\* one top-level evaluation root.get_data(**request), on the block built
\* last: a block only refers to blocks built before it, so evaluating an
\* older block is evaluating the block built last in a shorter behaviour
GetData ==
    /\ Idle
    /\ nodes # <<>>
    /\ \E request \in RequestsFor(Len(nodes)) :
        LET got == evaluate(Len(nodes), request, NewWalk)
        IN call' = [root |-> Len(nodes), req |-> request, res |-> got.res,
                    log |-> got.st.log]
    /\ raised' = ""
    /\ UNCHANGED <<nodes, files>>

\* the caller drops the result or the exception of its last operation
Return ==
    /\ ~Idle
    /\ raised' = ""
    /\ call' = NoCall
    /\ UNCHANGED <<nodes, files>>

Next ==
    \/ NewGeometryFileSource
    \/ NewDifference
    \/ NewIntersection
    \/ NewRasterize
    \/ NewReclassify
    \/ GetData
    \/ Return

Spec == Init /\ [][Next]_vars

----------------------------------------------------------------------------
(* Series blocks over a geometry source.                                   *)

NewMockGeometry == \E url \in Urls : MockGeometry_init(url)

NewFileSource == GeometryFileSource_init("a")

NewGetSeriesBlock ==
    \E source \in ArgValues, name \in {StrV("a"), StrV("c"), IntV(5)} :
        GetSeriesBlock_init(source, name)

NewSetSeriesBlock ==
    \E source \in ArgValues, column \in {StrV("a"), StrV("c"), IntV(5)},
       value \in {v \in ArgValues : IsSeriesBlock(v)} \cup {IntV(5)} :
        SetSeriesBlock_init(source, column, value, <<>>)

\* a == b on a series block a
NewEqual ==
    \E self \in {v \in ArgValues : IsSeriesBlock(v)}, other \in ArgValues \ {NoneV, StrV("a")} :
        SeriesBlock_eq(self, other)

NextSeries ==
    \/ NewMockGeometry
    \/ NewFileSource
    \/ NewGetSeriesBlock
    \/ NewSetSeriesBlock
    \/ NewEqual
    \/ GetData
    \/ Return

SpecSeries == Init /\ [][NextSeries]_vars

----------------------------------------------------------------------------
(* Calls of the static process methods, on the results a caller may hold.  *)

\* the geometry of a row: missing, empty, one cell, two cells
GeomValues == { NoGeom, {}, {<<0, 0>>}, {<<0, 0>>, <<0, 1>>} }

RECURSIVE TablesOver(_)
\* the row sequences with identities from ids, in the order of ids
TablesOver(ids) ==
    IF ids = <<>> THEN { <<>> }
    ELSE LET rest == TablesOver(Tail(ids))
         IN rest \cup { <<Row(Head(ids), g, 10 * Head(ids))>> \o t :
                           g \in GeomValues, t \in rest }

\* {"features": ..., "projection": ...} results
FeatureResults(ids) ==
    { DictV([projection |-> PROJ, features |-> Frame(rows)]) : rows \in TablesOver(ids) }
    \cup { DictV([projection |-> PROJ, features |-> EmptyFrame]) }

\* the boxes on and one unit beyond the grid
Boxes ==
    { b \in (0 .. GridW + 1) \X (0 .. GridH) \X (0 .. GridW + 1) \X (0 .. GridH) :
         b[1] < b[3] /\ b[2] < b[4] }

\* {"extent": ..., "projection": ...} results: a box, None, or NaNs
ExtentResults ==
    { DictV([projection |-> PROJ, extent |-> e]) :
        e \in {NoneV, NanBoxV} \cup { BoxV(b) : b \in Boxes } }

\* the results of the primary input, and of the secondary input whose rows
\* come in another order and hold one identity more
SourceResults == FeatureResults([i \in 1 .. MaxRows |-> i])
OtherResults == FeatureResults([i \in 1 .. MaxRows + 1 |-> MaxRows + 2 - i])

\* the caller holds the result of fn(*args)
Called(fn, args, res) ==
    /\ Idle
    /\ call' = [root |-> 0, fn |-> fn, args |-> args, res |-> res]
    /\ raised' = ""
    /\ UNCHANGED <<nodes, files>>

CallDifferenceProcess ==
    \* a call starts when the caller holds no call
    /\ Idle
    /\ \/ \E source_data \in SourceResults, other_data \in OtherResults :
             Called("Difference.process", <<source_data, other_data>>,
                    Difference_process(source_data, other_data))
       \/ \E source_data \in ExtentResults
                            \cup { DictV([empty |-> TRUE, projection |-> PROJ]) } :
             Called("Difference.process", <<source_data>>,
                    Difference_process(source_data, NoneV))

CallIntersectionProcess ==
    \* a call starts when the caller holds no call
    /\ Idle
    /\ \E data \in ExtentResults \cup SourceResults, b \in Boxes :
           Called("Intersection.process", <<data, BoxV(b)>>,
                  Intersection_process(data, BoxV(b)))

NextStatic ==
    \/ CallDifferenceProcess
    \/ CallIntersectionProcess
    \/ Return

SpecStatic == Init /\ [][NextStatic]_vars

----------------------------------------------------------------------------
(* The request mappings as objects.  A heap is a sequence of dicts, the    *)
(* address of a dict its position.  A plan called with **kwargs gets its   *)
(* request as a new dict; it returns the heap it leaves behind and the     *)
(* addresses of the request mappings it hands out: those of its pairs, in  *)
(* order, and for Difference the extent request (second).  The extent that *)
(* Difference gets from its source is an input of the plan here.           *)

\* a new dict with the given items: its address and the heap holding it
Alloc(h, items) == [heap |-> Append(h, items), addr |-> Len(h) + 1]

HandedOut(h, handed) == [heap |-> h, handed |-> handed]

GeometryFileSource_get_sources_and_requests_heap(n, h, kwargs) ==
    LET request == Alloc(h, h[kwargs])
        out == GeometryFileSource_get_sources_and_requests(n, h[kwargs])
        \* request["filters"], request["mode"], ... = ...: written in place
        written == IF IsError(out)
                   THEN IF HasKey(h[kwargs], "filters") THEN h[kwargs]
                        ELSE SetKey(h[kwargs], "filters", <<>>)
                   ELSE out.pairs[2].src.d
    IN HandedOut([request.heap EXCEPT ![request.addr] = written],
                 IF IsError(out) THEN <<>> ELSE <<request.addr>>)

Intersection_get_sources_and_requests_heap(n, h, kwargs) ==
    LET request == Alloc(h, h[kwargs])
    IN HandedOut(request.heap, <<request.addr>>)

Reclassify_get_sources_and_requests_heap(n, h, kwargs) ==
    LET request == Alloc(h, h[kwargs])
    IN HandedOut(request.heap, <<request.addr>>)

Rasterize_get_sources_and_requests_heap(n, h, kwargs) ==
    LET request == Alloc(h, h[kwargs])
        out == Rasterize_get_sources_and_requests(n, h[kwargs])
    IN IF IsError(out) \/ IsNone(out.pairs[1].req) THEN HandedOut(request.heap, <<>>)
       ELSE LET geom_request == Alloc(request.heap, out.pairs[1].req.d)
            IN HandedOut(geom_request.heap, <<geom_request.addr>>)

\* a faulty plan: other_request = request, without the copy
Difference_plan_aliased(n, h, kwargs, extent) ==
    LET request == Alloc(h, h[kwargs])
        extent_request == Alloc(request.heap, SetKey(h[kwargs], "mode", "extent"))
    IN IF h[kwargs].mode = "extent" THEN HandedOut(request.heap, <<request.addr>>)
       ELSE IF IsNone(extent)
       THEN HandedOut(extent_request.heap, <<0, extent_request.addr>>)
       ELSE HandedOut([extent_request.heap EXCEPT ![request.addr] =
                          SetKey(@, "geometry", extent)],
                      <<request.addr, extent_request.addr, request.addr>>)

\* extent is self.source.get_data(**extent_request)["extent"]; the callee
\* gets a dict of its own
Difference_get_sources_and_requests_heap(n, h, kwargs, extent) ==
    LET request == Alloc(h, h[kwargs])
        \* extent_request = request.copy(); extent_request["mode"] = "extent"
        extent_request == Alloc(request.heap, SetKey(h[kwargs], "mode", "extent"))
    IN IF h[kwargs].mode = "extent" THEN HandedOut(request.heap, <<request.addr>>)
       ELSE IF IsNone(extent)
       THEN HandedOut(extent_request.heap, <<0, extent_request.addr>>)
       ELSE \* other_request = request.copy(); other_request["geometry"] = box(*extent)
            LET other_request == Alloc(extent_request.heap,
                                       SetKey(h[kwargs], "geometry", extent))
            IN HandedOut(other_request.heap,
                         <<request.addr, extent_request.addr, other_request.addr>>)

get_sources_and_requests_heap(n, h, kwargs, extent) ==
    CASE Kind(n) = "GeometryFileSource" ->
           GeometryFileSource_get_sources_and_requests_heap(n, h, kwargs)
      [] Kind(n) = "Intersection" -> Intersection_get_sources_and_requests_heap(n, h, kwargs)
      [] Kind(n) = "Difference" ->
           Difference_get_sources_and_requests_heap(n, h, kwargs, extent)
      [] Kind(n) = "Rasterize" -> Rasterize_get_sources_and_requests_heap(n, h, kwargs)
      [] Kind(n) = "Reclassify" -> Reclassify_get_sources_and_requests_heap(n, h, kwargs)

\* one block of each type, over a file
SampleBlocks ==
    << [kind |-> "GeometryFileSource", args |-> <<StrV("a"), NoneV, StrV("id")>>],
       [kind |-> "Difference", args |-> <<NodeV(1), NodeV(1)>>],
       [kind |-> "Intersection", args |-> <<NodeV(1), NoneV>>],
       [kind |-> "Rasterize", args |-> <<NodeV(1), StrV("a"), StrV("int32"), NoneV>>],
       [kind |-> "Reclassify",
        args |-> <<NodeV(4), [t |-> "pairs", p |-> << <<IntV(10), IntV(1)>> >>],
                   BoolV(FALSE)>>] >>

InitRequests ==
    /\ nodes = SampleBlocks
    /\ files \in FileWorlds
    /\ raised = ""
    /\ call = NoCall

\* the extents a source may report: None, NaNs, a box
SourceExtents == {NoneV, NanBoxV} \cup { BoxV(b) : b \in RequestBoxes }

\* a caller holding its request at address 1 calls the plan of block n
CallPlan ==
    /\ Idle
    /\ \E n \in NodeIds, extent \in SourceExtents : \E request \in RequestsFor(n) :
          LET p == get_sources_and_requests_heap(n, <<request>>, 1, extent)
          IN call' = [root |-> n, fn |-> "get_sources_and_requests",
                      heap |-> p.heap, caller |-> 1, before |-> request,
                      handed |-> p.handed,
                      at_return |-> [k \in DOMAIN p.handed |->
                                        IF p.handed[k] = 0 THEN <<>>
                                        ELSE p.heap[p.handed[k]]],
                      changed |-> 0]
    /\ raised' = ""
    /\ UNCHANGED <<nodes, files>>

\* the keys and values of a later change to a request mapping
Changes == { [key |-> "mode", value |-> "changed"], [key |-> "extra", value |-> "x"] }

\* whoever got the k-th mapping handed out changes one of its items
ChangeRequest ==
    /\ call # NoCall
    /\ call.changed = 0
    /\ \E k \in DOMAIN call.handed, c \in Changes :
          /\ call.handed[k] # 0
          /\ call' = [call EXCEPT !.heap[call.handed[k]] = SetKey(@, c.key, c.value),
                                  !.changed = k]
    /\ UNCHANGED <<nodes, files, raised>>

NextRequests ==
    \/ CallPlan
    \/ ChangeRequest
    \/ Return

SpecRequests == InitRequests /\ [][NextRequests]_vars

----------------------------------------------------------------------------
(* The columns that geometry blocks declare: a caller builds geometry      *)
(* sources and assign-columns blocks of one or more (name, value) pairs.   *)

\* the *args after the first (column, value) pair
MoreColumns ==
    { <<>>,
      <<StrV("d"), IntV(5)>>,
      <<StrV("d")>>,
      <<IntV(5), IntV(5)>> }

\* GeometryBlock.set(*args)
GeometryBlock_set ==
    \E source \in ArgValues, column \in {StrV("a"), StrV("c"), IntV(5)}, args \in MoreColumns :
        SetSeriesBlock_init(source, column, IntV(5), args)

NextColumns ==
    \/ NewMockGeometry
    \/ NewFileSource
    \/ GeometryBlock_set
    \/ Return

SpecColumns == Init /\ [][NextColumns]_vars

----------------------------------------------------------------------------
(* Raster blocks called directly: a caller that holds a geometry source    *)
(* and two Rasterize blocks over it builds Classify and Mask blocks, calls *)
(* the plan of the Rasterize blocks and calls the static process methods   *)
(* of Classify, Reclassify, Mask and GeometryFileSource.                   *)

\* Rasterize(source), and Rasterize(source, "a", limit=0)
RasterSample ==
    << [kind |-> "GeometryFileSource", args |-> <<StrV("a"), NoneV, StrV("id")>>],
       [kind |-> "Rasterize", args |-> <<NodeV(1), NoneV, StrV("bool"), NoneV>>],
       [kind |-> "Rasterize", args |-> <<NodeV(1), StrV("a"), StrV("int32"), IntV(0)>>] >>

InitRaster ==
    /\ nodes = RasterSample
    /\ files \in FileWorlds
    /\ raised = ""
    /\ call = NoCall

\* n edges 0, 10, 20, ...
Edges(n) == [k \in 1 .. n |-> 10 * (k - 1)]

\* what callers pass as bins to the constructor
ClassifyBins ==
    { ListV(<<>>), ListV(<<5>>), ListV(<<0, 10>>), ListV(<<0, 0>>), ListV(<<10, 0>>),
      ListV(Edges(3)), ListV(<<20, 10, 0>>), ListV(<<0, 20, 10>>), ListV(<<0, 10, 10>>),
      [t |-> "list2"], [t |-> "strs"], StrV("a"), IntV(5) }

NewClassify ==
    \E store \in ArgValues, bins \in ClassifyBins : Classify_init(store, bins, BoolV(FALSE))

NewMask ==
    \E store \in ArgValues, value \in {IntV(1), FloatV(3, FALSE), NoneV, StrV("a")} :
        Mask_init(store, value)

\* the grids of one row of GridW cells
Grids(cells) == [Pixels(GridW, 1) -> cells]

\* the value a store marks its no-data cells with in the calls of the model
NoData == IntV(-9999)

\* {"values": ..., "no_data_value": ...} results, and the results without
\* values
RasterResults(cells, no_data_values) ==
    { DictV([values |-> g, no_data_value |-> ndv]) :
        g \in Grids(cells), ndv \in no_data_values }
    \cup { NoneV, DictV([meta |-> <<NoneV>>]) }

\* the bins of the calls of Classify.process: few edges, edges that fall,
\* edges that rise and fall, and as many edges as one byte can index
ProcessBins ==
    { ListV(Edges(n)) : n \in {0, 1, 3, MaxEdges - 1, MaxEdges} }
    \cup { ListV(<<20, 10, 0>>), ListV(<<0, 20, 10>>) }

CallClassifyProcess ==
    \* a call starts when the caller holds no call
    /\ Idle
    /\ \E data \in RasterResults({IntV(-5), IntV(0), IntV(5), IntV(10), IntV(25),
                                  IntV(10 * MaxEdges), NoData}, {NoData}),
          bins \in ProcessBins, right \in {BoolV(FALSE), BoolV(TRUE)} :
           Called("Classify.process", <<data, bins, right>>, Classify_process(data, bins, right))

\* the process_kwargs that Reclassify.get_sources_and_requests builds
ReclassifyKwargs ==
    { DictV([dtype |-> "int64", fillvalue |-> get_dtype_max("int64"),
             data |-> data, select |-> select]) :
        data \in { << <<IntV(1), IntV(10)>>, <<IntV(2), IntV(20)>> >>,
                   << <<IntV(1), IntV(2)>>, <<IntV(2), IntV(1)>> >>,
                   << <<NoData, IntV(10)>>, <<IntV(1), IntV(20)>> >> },
        select \in BOOLEAN }

CallReclassifyProcess ==
    \* a call starts when the caller holds no call
    /\ Idle
    /\ \E store_data \in RasterResults({IntV(1), IntV(2), IntV(3), NoData}, {NoData, NoneV}),
          process_kwargs \in ReclassifyKwargs :
           Called("Reclassify.process", <<store_data, process_kwargs>>,
                  Reclassify_process(store_data, process_kwargs))

\* the constants of the calls of Mask.process
MaskValues ==
    { IntV(0), IntV(1), IntV(7), IntV(UintMax("uint8")), IntV(UintMax("uint8") + 1),
      IntV(-1), BoolV(TRUE), BoolV(FALSE),
      FloatV(0, FALSE), FloatV(3, FALSE), FloatV(0, TRUE) }

CallMaskProcess ==
    \* a call starts when the caller holds no call
    /\ Idle
    /\ \E data \in RasterResults({IntV(0), IntV(1), NoData}, {NoData, NoneV}),
          value \in MaskValues :
           \E res \in Mask_process(data, value) :
               Called("Mask.process", <<data, value>>, res)

\* the raster requests of a direct call of a plan: every mode, and every
\* window with corners on the corners of the grid
PlanRequests ==
    { [mode |-> m, bbox |-> <<x1, y1, x2, y2>>, width |-> GridW, height |-> GridH,
       projection |-> PROJ] :
        m \in RasterModes, x1 \in {0, GridW}, y1 \in {0, GridH},
        x2 \in {0, GridW}, y2 \in {0, GridH} }

CallRasterizePlan ==
    \E n \in {i \in NodeIds : Kind(i) = "Rasterize"}, request \in PlanRequests :
        Called("Rasterize.get_sources_and_requests", <<NodeV(n), DictV(request)>>,
               Rasterize_get_sources_and_requests(n, request))

\* the requests as GeometryFileSource.get_sources_and_requests hands them to
\* process, without a limit and with the limit None, 0, 1, ...
ProcessRequests ==
    LET base == { [mode |-> m, geometry |-> BoxV(b), projection |-> PROJ,
                   filters |-> <<>>, layer |-> NoneV, id_field |-> StrV("id")] :
                    m \in {"intersects", "centroid", "extent"}, b \in RequestBoxes }
    IN base \cup { SetKey(r, "limit", l) :
                      r \in base, l \in {<<>>} \cup { <<k>> : k \in 0 .. GeometryLimit + 1 } }

\* extent requests that carry a property filter (a = 7), a min_size (1), or
\* both, as get_data(mode="extent", filters={"a": 7}, min_size=1, ...) gives
FilteredRequests ==
    { r \in { [mode |-> "extent", geometry |-> BoxV(b), projection |-> PROJ,
               filters |-> fs, layer |-> NoneV, id_field |-> StrV("id"),
               min_size |-> ms] :
                 b \in RequestBoxes,
                 fs \in { <<>>, << [field |-> "a", value |-> 7] >> },
                 ms \in { <<>>, <<1, 1>> } } :
        r.filters # <<>> \/ r.min_size # <<>> }

CallGeometryFileSourceProcess ==
    \* a call starts when the caller holds no call
    /\ Idle
    /\ \E url \in Urls, request \in ProcessRequests \cup FilteredRequests :
           Called("GeometryFileSource.process", <<StrV(url), DictV(request)>>,
                  GeometryFileSource_process(StrV(url), DictV(request)))

NextRaster ==
    \/ NewClassify
    \/ NewMask
    \/ CallClassifyProcess
    \/ CallReclassifyProcess
    \/ CallMaskProcess
    \/ CallRasterizePlan
    \/ CallGeometryFileSourceProcess
    \/ Return

SpecRaster == InitRaster /\ [][NextRaster]_vars

----------------------------------------------------------------------------
(* What the last get_data call did.                                        *)

Log == call.log
Events(ev) == {i \in DOMAIN Log : Log[i].ev = ev}
Returned == call.root # 0 /\ ~IsError(call.res)

\* C1: within one top-level get_data call, process (combine) runs at most
\* once per distinct (node, request) key, however many parents reach the
\* key, also in graphs that contain Difference blocks.
C1_CombineAtMostOncePerKey ==
    \A i, j \in Events("combine") :
        (Token(Log[i].node) = Token(Log[j].node) /\ Log[i].req = Log[j].req) => i = j

\* C2: no get_sources_and_requests (plan) makes a child's plan or process
\* run: every plan and every process of a call runs outside all plans.
C2_PlanRunsNoEvaluation ==
    \A i \in Events("plan") \cup Events("combine") : Log[i].nest = 0

\* the pairs a plan of block n may return, by the parameters of n's process
PlanShape(n, pairs) ==
    LET literal(k) == IsNone(pairs[k].req) /\ pairs[k].src.t # "node"
        child(k, c) == pairs[k].src = c /\ pairs[k].req.t = "dict"
    IN CASE Kind(n) = "Difference" ->
              \/ Len(pairs) = 1 /\ child(1, Args(n)[1])
              \/ Len(pairs) = 1 /\ literal(1) /\ HasKey(pairs[1].src.d, "empty")
              \/ Len(pairs) = 2 /\ child(1, Args(n)[1]) /\ child(2, Args(n)[2])
         [] Kind(n) = "Intersection" ->
              Len(pairs) = 2 /\ child(1, Args(n)[1]) /\ literal(2)
              /\ pairs[2].src.t \in {"box", "nan"}
         [] Kind(n) = "GeometryFileSource" ->
              Len(pairs) = 2 /\ literal(1) /\ pairs[1].src = Args(n)[1]
              /\ literal(2) /\ pairs[2].src.t = "dict"
         [] Kind(n) = "Reclassify" ->
              Len(pairs) = 2 /\ child(1, Args(n)[1]) /\ literal(2)
              /\ pairs[2].src.t = "dict" /\ HasKey(pairs[2].src.d, "data")
         [] Kind(n) = "Rasterize" ->
              Len(pairs) = 2 /\ (child(1, Args(n)[1]) \/ literal(1)) /\ literal(2)
              /\ pairs[2].src.t = "dict" /\ HasKey(pairs[2].src.d, "mode")

\* the arguments the process of block n binds, in the order of its parameters
ArgsFit(n, args) ==
    LET data(k) == args[k].t = "dict"
    IN CASE Kind(n) = "Difference" ->
              Len(args) \in {1, 2} /\ \A k \in DOMAIN args : data(k)
         [] Kind(n) = "Intersection" ->
              Len(args) = 2 /\ data(1) /\ args[2].t \in {"box", "nan"}
         [] Kind(n) = "GeometryFileSource" ->
              Len(args) = 2 /\ args[1].t = "str" /\ data(2) /\ HasKey(args[2].d, "id_field")
         [] Kind(n) = "Reclassify" ->
              Len(args) = 2 /\ data(1) /\ data(2) /\ HasKey(args[2].d, "data")
         [] Kind(n) = "Rasterize" ->
              Len(args) = 2 /\ data(2) /\ HasKey(args[2].d, "mode")
              /\ (args[2].d.mode = "vals" => data(1))

\* C3: the pairs every plan returns match, in number and in order, the
\* positional parameters of the block's process: one or two for Difference,
\* exactly two for Intersection, GeometryFileSource, Reclassify and
\* Rasterize, in every request mode.
C3_PlanMatchesProcess ==
    /\ \A i \in Events("plan") :
          ~IsError(Log[i].out) => PlanShape(Log[i].node, Log[i].out.pairs)
    /\ \A i \in Events("combine") :
          Len(Log[i].args) = Len(Log[i].pairs) /\ ArgsFit(Log[i].node, Log[i].args)

\* a call that ran the process of a two-pair Difference, of a Rasterize in
\* mode vals and of a GeometryFileSource
C3_Witness ==
    /\ Returned
    /\ \E i, j, k \in Events("combine") :
          /\ Kind(Log[i].node) = "Difference" /\ Len(Log[i].args) = 2
          /\ Kind(Log[j].node) = "Rasterize" /\ Log[j].req.mode = "vals"
          /\ Kind(Log[k].node) = "GeometryFileSource"

\* the positions of a process call whose pair carried the no-request marker
NoRequest(i) == {k \in DOMAIN Log[i].pairs : IsNone(Log[i].pairs[k].req)}

\* C5 as stated: a source paired with None is never passed to any process.
C5_LiteralNeverPassedToCombine ==
    \A i \in Events("combine") : \A k \in NoRequest(i) :
        \A l \in DOMAIN Log[i].args : Log[i].args[l] # Log[i].pairs[k].src

\* C5, amended: the literals of the plans in src are the sources paired
\* with None; such a source is not a block, the evaluator is not entered
\* for it (no plan and no process runs on it), and it reaches the process
\* of the block whose plan produced it unchanged, at the position of its
\* pair.
C5_LiteralUnresolved ==
    /\ Events("literal") = {}
    /\ \A i \in Events("plan") :
          ~IsError(Log[i].out) =>
              \A k \in DOMAIN Log[i].out.pairs :
                  IsNone(Log[i].out.pairs[k].req) <=> Log[i].out.pairs[k].src.t # "node"
    /\ \A i \in Events("combine") : \A k \in NoRequest(i) :
          Log[i].args[k] = Log[i].pairs[k].src

\* a call that handed a request geometry, a url with its request dict and
\* the process_kwargs of Reclassify and Rasterize to their processes
C5_Witness ==
    /\ Returned
    /\ \E i, j, k, l \in Events("combine") :
          /\ Kind(Log[i].node) = "Intersection" /\ 2 \in NoRequest(i)
          /\ Kind(Log[j].node) = "GeometryFileSource" /\ NoRequest(j) = {1, 2}
          /\ Kind(Log[k].node) = "Reclassify" /\ 2 \in NoRequest(k)
          /\ Kind(Log[l].node) = "Rasterize" /\ 2 \in NoRequest(l)

\* C6: two independently constructed blocks of the same kind with
\* element-wise equal arguments share one cache entry: once one of them has
\* been evaluated for a request in a call, evaluating the other for that
\* request in that call is a cache hit, for blocks of every capability.
C6_StructurallyEqualShareEntry ==
    \A i, j \in Events("combine") \cup Events("hit") :
        (/\ i < j
         /\ Log[i].scope = Log[j].scope
         /\ StructEq(Log[i].node, Log[j].node)
         /\ Log[i].req = Log[j].req
         /\ (Log[i].ev = "combine" => ~IsError(Log[i].res))) => Log[j].ev = "hit"

\* a call that evaluated one GetSeriesBlock and then found a second,
\* separately built, equal GetSeriesBlock in the cache
C6_Witness ==
    /\ Returned
    /\ \E i \in Events("combine"), j \in Events("hit") :
          /\ i < j
          /\ Kind(Log[i].node) = "GetSeriesBlock"
          /\ Log[i].node # Log[j].node
          /\ StructEq(Log[i].node, Log[j].node)
          /\ Log[i].req = Log[j].req

\* C7: for an extent request the plan of Difference(A, B) is the one pair
\* (A, request), request unchanged, and its process returns A's result
\* unchanged: nothing is asked of B and the extent is the extent of A.
C7_DifferenceExtentIsSourceExtent ==
    /\ \A i \in Events("plan") :
          (Kind(Log[i].node) = "Difference" /\ Log[i].req.mode = "extent") =>
              Log[i].out = Pairs(<< Pair(Args(Log[i].node)[1], DictV(Log[i].req)) >>)
    /\ \A i \in Events("combine") :
          (Kind(Log[i].node) = "Difference" /\ Log[i].req.mode = "extent") =>
              Len(Log[i].args) = 1 /\ Log[i].res = Log[i].args[1]

\* an extent request answered by a Difference whose two inputs differ, with
\* a box
C7_Witness ==
    /\ Returned
    /\ call.req.mode = "extent"
    /\ Kind(call.root) = "Difference"
    /\ ~StructEq(Args(call.root)[1].id, Args(call.root)[2].id)
    /\ call.res.d.extent.t = "box"

\* C10 as stated: reading columns of a geometry block returns a set of
\* names without raising.
C10_ColumnsNeverRaise ==
    \A i \in NodeIds : Kind(i) \in GeometryKinds => ~IsError(columns(i))

\* the last operation was a call fn(*args) of a static method
IsCall(fn) == call # NoCall /\ call.root = 0 /\ call.fn = fn

\* C8: a feature result of Difference.process has exactly A's rows, in A's
\* order and with A's properties; a row without a counterpart in B (B may
\* have no rows at all) keeps A's geometry, a row with a counterpart has
\* B's geometry subtracted, and no row of B alone appears.
C8_DifferenceRows ==
    (IsCall("Difference.process") /\ Len(call.args) = 2) =>
        LET a == call.args[1].d.features
            b == call.args[2].d.features
        IN /\ ~IsError(call.res)
           /\ Len(call.res.d.features.rows) = Len(a.rows)
           /\ \A i \in DOMAIN a.rows :
                 LET r == call.res.d.features.rows[i]
                     id == a.rows[i].id
                 IN /\ r.id = id
                    /\ r.a = a.rows[i].a
                    /\ r.geometry =
                         IF id \in Ids(b) /\ RowOf(b, id).geometry # NoGeom
                            /\ a.rows[i].geometry # NoGeom
                         THEN a.rows[i].geometry \ RowOf(b, id).geometry
                         ELSE a.rows[i].geometry

\* a call where one row of A lost cells to its counterpart in B, another row
\* of A has no counterpart, and B has a row that A has not
C8_Witness ==
    /\ IsCall("Difference.process")
    /\ Len(call.args) = 2
    /\ ~IsError(call.res)
    /\ LET a == call.args[1].d.features
           b == call.args[2].d.features
           r == call.res.d.features
       IN /\ \E i \in DOMAIN a.rows :
                a.rows[i].id \in Ids(b) /\ r.rows[i].geometry # a.rows[i].geometry
          /\ \E i \in DOMAIN a.rows :
                a.rows[i].id \notin Ids(b) /\ a.rows[i].geometry \notin {NoGeom, {}}
          /\ \E j \in DOMAIN b.rows : b.rows[j].id \notin Ids(a)

\* two boxes share more than their border
Overlap(a, b) == a[1] < b[3] /\ b[1] < a[3] /\ a[2] < b[4] /\ b[2] < a[4]

\* C9 as stated: for an extent result of A, Intersection.process returns
\* an extent result without raising: the box (max x1, max y1, min x2,
\* min y2) when A's box and the bounds of the geometry overlap, and None
\* when A's extent is None or the two boxes share no point.
C9_ExtentIntersectionIsValid ==
    (IsCall("Intersection.process") /\ HasKey(call.args[1].d, "extent")
     /\ call.args[1].d.extent # NanBoxV) =>
        LET e == call.args[1].d.extent
            g == call.args[2].b
        IN /\ ~IsError(call.res)
           /\ HasKey(call.res.d, "extent")
           /\ (~IsNone(e) /\ Overlap(e.b, g)) =>
                 call.res.d.extent = BoxV(<< Max2(e.b[1], g[1]), Max2(e.b[2], g[2]),
                                            Min2(e.b[3], g[3]), Min2(e.b[4], g[4]) >>)
           /\ (IsNone(e) \/ (~IsNone(e) /\ ~BoxesTouch(e.b, g))) =>
                 IsNone(call.res.d.extent)
\* C4: after a plan call the caller's request mapping is what it was
\* before; a sub-request that differs from the incoming request is a new
\* mapping; and a later change to a mapping that was handed out shows
\* neither in the caller's request nor in a mapping handed to a sibling.
C4_RequestsNotAliased ==
    call # NoCall =>
        /\ call.heap[call.caller] = call.before
        /\ \A k \in DOMAIN call.handed :
              (call.handed[k] # 0 /\ call.at_return[k] # call.before) =>
                  call.handed[k] # call.caller
        /\ \A k \in DOMAIN call.handed :
              (call.handed[k] # 0 /\ k # call.changed) =>
                  call.heap[call.handed[k]] = call.at_return[k]

\* the request Difference made for B was changed after the plan returned
C4_Witness ==
    /\ call # NoCall
    /\ Kind(call.root) = "Difference"
    /\ Len(call.handed) = 3
    /\ call.changed = 3
    /\ call.at_return[3] # call.before
    /\ call.heap[call.handed[3]] # call.at_return[3]

----------------------------------------------------------------------------
(* GetSeriesBlock.__init__ (geometry/base.py 194-201).                     *)

\* C11: a GetSeriesBlock exists only over a geometry block, with a string
\* name that is one of its source's columns: every other construction call
\* raised and created no block, and no plan or process of a GetSeriesBlock
\* is the first to find the column name unknown (none ends in a KeyError).
C11_GetSeriesBlockChecked ==
    /\ \A i \in NodeIds :
          Kind(i) = "GetSeriesBlock" =>
             /\ IsGeometryBlock(Args(i)[1])
             /\ Args(i)[2].t = "str"
             /\ ~IsError(columns(Args(i)[1].id))
             /\ Args(i)[2].s \in columns(Args(i)[1].id).cols
    /\ \A k \in Events("plan") :
          Kind(Log[k].node) = "GetSeriesBlock" => Log[k].out # Raise("KeyError")
    /\ \A k \in Events("combine") :
          Kind(Log[k].node) = "GetSeriesBlock" => Log[k].res # Raise("KeyError")

\* a column that only an assign-columns block declares was projected and
\* evaluated
C11_Witness ==
    /\ \E k \in Events("combine") :
          /\ Kind(Log[k].node) = "GetSeriesBlock"
          /\ Args(Log[k].node)[2] = StrV("c")
          /\ Kind(Args(Log[k].node)[1].id) = "SetSeriesBlock"

----------------------------------------------------------------------------
(* SetSeriesBlock.columns (geometry/base.py 246-248).                      *)

\* the names an assign-columns block was given
AssignedNames(i) == {Args(i)[k].s : k \in {k \in DOMAIN Args(i) : k % 2 = 0}}

RECURSIVE AssignedAlong(_), ChainOrigin(_)
\* the names assigned by a chain of assign-columns blocks ending in block i
AssignedAlong(i) ==
    IF Kind(i) = "SetSeriesBlock"
    THEN AssignedNames(i) \cup AssignedAlong(BaseSingle_source(i))
    ELSE {}
\* the block that a chain of assign-columns blocks starts from
ChainOrigin(i) ==
    IF Kind(i) = "SetSeriesBlock" THEN ChainOrigin(BaseSingle_source(i)) ELSE i

\* columns of a union the source's columns with the names, or the exception
\* the source's columns raise
UnitedWith(src, names) == IF IsError(src) THEN src ELSE [cols |-> src.cols \cup names]

\* C12: the columns of an assign-columns block are its source's columns
\* united with the names of its (name, value) pairs, for one pair or more;
\* a chain of such blocks declares the columns of the block the chain starts
\* from united with every name assigned along the chain; and building a
\* block changes the columns of no block that exists.
C12_AssignColumnsUnion ==
    [][ /\ \A i \in DOMAIN nodes' :
              nodes'[i].kind = "SetSeriesBlock" =>
                 /\ columns(i)' = UnitedWith(columns(BaseSingle_source(i)), AssignedNames(i))'
                 /\ columns(i)' = UnitedWith(columns(ChainOrigin(i)), AssignedAlong(i))'
        /\ \A j \in DOMAIN nodes : columns(j)' = columns(j) ]_vars

\* an assign-columns block of two pairs over an assign-columns block, with
\* names that its source does not declare
C12_Witness ==
    \E i \in NodeIds :
        /\ Kind(i) = "SetSeriesBlock"
        /\ Len(Args(i)) = 5
        /\ Kind(BaseSingle_source(i)) = "SetSeriesBlock"
        /\ ~IsError(columns(i))
        /\ columns(i).cols = {"geometry", "a", "c", "d"}
        /\ columns(BaseSingle_source(i)).cols # columns(i).cols

----------------------------------------------------------------------------
(* GetSeriesBlock.process (geometry/base.py 207-211).                      *)

\* the runs of GetSeriesBlock.process on a resolved result of its source
ProjectRuns ==
    {k \in Events("combine") :
        /\ Kind(Log[k].node) = "GetSeriesBlock"
        /\ Len(Log[k].args) = 2
        /\ Log[k].args[1].t = "dict"}

\* C13: GetSeriesBlock.process raises on no resolved result of its source.
\* It returns an empty series when the result holds no "features" (an
\* extent), when the table has no rows and when the table lacks the named
\* column; otherwise it returns the named column: one value per row, in the
\* order and with the row identities of the table.
C13_ProjectColumnNeverRaises ==
    \A k \in ProjectRuns :
        LET data == Log[k].args[1].d
            name == Log[k].args[2].s
            res == Log[k].res
        IN /\ ~IsError(res)
           /\ res.t = "series"
           /\ IF ~HasKey(data, "features") THEN res.rows = <<>>
              ELSE IF Len(data.features.rows) = 0 THEN res.rows = <<>>
              ELSE IF name \notin data.features.columns THEN res.rows = <<>>
              ELSE /\ Len(res.rows) = Len(data.features.rows)
                   /\ \A i \in DOMAIN res.rows :
                         /\ res.rows[i].id = data.features.rows[i].id
                         /\ res.rows[i].v = data.features.rows[i][name]

\* the source read no rows: its table has no rows and lacks the named
\* column, and the series is empty
C13_Witness ==
    \E k \in ProjectRuns :
        /\ HasKey(Log[k].args[1].d, "features")
        /\ Log[k].args[1].d.features.rows = <<>>
        /\ Log[k].args[2].s \notin Log[k].args[1].d.features.columns
        /\ Log[k].res = SeriesV(<<>>)

----------------------------------------------------------------------------
(* Classify.process (raster/misc.py 314-326).                              *)

\* the calls of Classify.process on a grid, with ascending bins and
\* left-closed, right-open intervals
AscendingCall ==
    /\ IsCall("Classify.process")
    /\ call.args[1].t = "dict"
    /\ HasKey(call.args[1].d, "values")
    /\ \A k \in 1 .. Len(call.args[2].l) - 1 : call.args[2].l[k] < call.args[2].l[k + 1]
    /\ call.args[3] = BoolV(FALSE)

\* C14: for ascending bins b[0..n-1] and right=False, Classify.process maps
\* every data cell v to the index i in 0..n with b[i-1] <= v < b[i] (so bins
\* 0, 10, 20 map -5, 0, 5, 10, 25 to 0, 1, 1, 2, 3), maps every no-data cell
\* to the no_data_value it reports, and that value is none of the indices
\* 0..n, for every number n of edges.
C14_ClassifyIndices ==
    AscendingCall =>
       LET values == call.args[1].d.values
           b == call.args[2].l
           n == Len(b)
           res == call.res
       IN /\ ~IsError(res)
          /\ \A i \in 0 .. n : ~NumEq(res.d.no_data_value, IntV(i))
          /\ \A p \in DOMAIN values :
                IF NumEq(values[p], call.args[1].d.no_data_value)
                THEN res.d.values[p] = res.d.no_data_value
                ELSE \E i \in 0 .. n :
                        /\ res.d.values[p] = IntV(i)
                        /\ i = 0 \/ b[i] <= values[p].i
                        /\ i = n \/ values[p].i < b[i + 1]
          /\ b = <<0, 10, 20>> =>
                \A p \in DOMAIN values :
                    /\ values[p] = IntV(-5) => res.d.values[p] = IntV(0)
                    /\ values[p] \in {IntV(0), IntV(5)} => res.d.values[p] = IntV(1)
                    /\ values[p] = IntV(10) => res.d.values[p] = IntV(2)
                    /\ values[p] = IntV(25) => res.d.values[p] = IntV(3)

\* 254 edges: a cell above every edge has the index 254, and a no-data cell
\* has the fill index 255, the largest value of uint8
C14_Witness ==
    /\ AscendingCall
    /\ Len(call.args[2].l) = UintMax("uint8") - 1
    /\ \E p, q \in DOMAIN call.res.d.values :
          /\ call.args[1].d.values[p] = NoData
          /\ call.res.d.values[p] = MaxV("uint8")
          /\ call.res.d.values[q] = IntV(UintMax("uint8") - 1)

----------------------------------------------------------------------------
(* Classify.__init__ (raster/misc.py 281-294).                             *)

\* a list of one or more numbers that strictly rise or strictly fall
StrictlyMonotonic(bins) ==
    /\ bins.t = "list"
    /\ Len(bins.l) >= 1
    /\ \/ \A k \in 1 .. Len(bins.l) - 1 : bins.l[k] < bins.l[k + 1]
       \/ \A k \in 1 .. Len(bins.l) - 1 : bins.l[k] > bins.l[k + 1]

\* C15: over a raster store, the construction of a Classify fails exactly
\* when bins is not a one-dimensional list of numbers with strictly
\* monotonic edges: a repeated edge and edges that rise and fall are
\* rejected, every strictly rising and every strictly falling list of one
\* edge or more is accepted.
C15_ClassifyAcceptsMonotonic ==
    (/\ IsCall("Classify")
     /\ IsRasterBlock(call.args[1])
     /\ call.args[2] # ListV(<<>>))
       => (IsError(call.res) <=> ~StrictlyMonotonic(call.args[2]))

----------------------------------------------------------------------------
(* Reclassify.process (raster/misc.py 402-435).                            *)

\* the calls of Reclassify.process on a grid
ReclassifyCall ==
    /\ IsCall("Reclassify.process")
    /\ call.args[1].t = "dict"
    /\ HasKey(call.args[1].d, "values")

\* C16: Reclassify.process gives every data cell whose value is a source
\* value of the mapping the target of that value; a data cell whose value is
\* no source value keeps its value when select is false and holds the fill
\* value when select is true (the mapping 1 -> 10, 2 -> 20 turns 1, 2, 3 into
\* 10, 20, 3 and into 10, 20, fill).
C16_ReclassifySelect ==
    ReclassifyCall =>
       LET values == call.args[1].d.values
           no_data_value == call.args[1].d.no_data_value
           kw == call.args[2].d
           res == call.res
           sources == {kw.data[k][1] : k \in DOMAIN kw.data}
       IN /\ ~IsError(res)
          /\ DOMAIN res.d.values = DOMAIN values
          /\ \A p \in DOMAIN values :
                ~NumEq(values[p], no_data_value) =>
                   /\ \A k \in DOMAIN kw.data :
                         values[p] = kw.data[k][1] => res.d.values[p] = kw.data[k][2]
                   /\ values[p] \notin sources =>
                         res.d.values[p] = IF kw.select THEN res.d.no_data_value
                                           ELSE values[p]

\* the mapping 1 -> 10, 2 -> 20 with select on a grid holding 1 and 3
C16_Witness ==
    /\ ReclassifyCall
    /\ call.args[2].d.data = << <<IntV(1), IntV(10)>>, <<IntV(2), IntV(20)>> >>
    /\ call.args[2].d.select
    /\ \E p, q \in DOMAIN call.res.d.values :
          /\ call.args[1].d.values[p] = IntV(1) /\ call.res.d.values[p] = IntV(10)
          /\ call.args[1].d.values[q] = IntV(3)
          /\ call.res.d.values[q] = get_dtype_max("int64")

----------------------------------------------------------------------------
(* Mask.process (raster/misc.py 140-152).                                  *)

\* the calls of Mask.process on a grid, with a constant that the constructor
\* of Mask accepts
MaskCall ==
    /\ IsCall("Mask.process")
    /\ call.args[1].t = "dict"
    /\ HasKey(call.args[1].d, "values")
    /\ IsNumber(call.args[2])

\* C17: for every int and float constant, Mask.process returns a grid in
\* which every cell that held data holds the constant and every no-data cell
\* holds the fill value, and the no_data_value it reports differs from what
\* the data cells hold, as stored in uint8 (int constant) or float32 (float
\* constant).
C17_MaskFillDiffersFromConstant ==
    MaskCall =>
       LET values == call.args[1].d.values
           no_data_value == call.args[1].d.no_data_value
           value == call.args[2]
           res == call.res
       IN /\ ~IsError(res)
          /\ \A p \in DOMAIN values :
                IF NumEq(values[p], no_data_value)
                THEN NumEq(res.d.values[p], res.d.no_data_value)
                ELSE /\ res.d.values[p] = value \/ NumEq(res.d.values[p], value)
                     /\ ~NumEq(res.d.values[p], res.d.no_data_value)

----------------------------------------------------------------------------
(* Rasterize.process on a result without rows (raster/misc.py 595-597).    *)

\* the runs of Rasterize.process, for a vals request, on a feature result
\* that has no rows
EmptyRasterizeRuns ==
    {k \in Events("combine") :
        /\ Kind(Log[k].node) = "Rasterize"
        /\ Len(Log[k].args) = 2
        /\ Log[k].args[2].t = "dict"
        /\ Log[k].args[2].d.mode = "vals"
        /\ Log[k].args[1].t = "dict"
        /\ HasKey(Log[k].args[1].d, "features")
        /\ Log[k].args[1].d.features.rows = <<>>}

\* C18: when the feature result has no rows, Rasterize.process does not fail
\* and returns a grid of height x width cells that all equal the
\* no_data_value it reports, for every dtype, with and without a column.
C18_EmptyRasterIsNoData ==
    \A k \in EmptyRasterizeRuns :
        LET kw == Log[k].args[2].d
            res == Log[k].res
        IN /\ ~IsError(res)
           /\ DOMAIN res.d.values = Pixels(kw.width, kw.height)
           /\ \A p \in DOMAIN res.d.values : NumEq(res.d.values[p], res.d.no_data_value)

----------------------------------------------------------------------------
(* Rasterize.get_sources_and_requests (raster/misc.py 520-565).            *)

\* the calls of the plan of a Rasterize block
RasterizePlanCall == IsCall("Rasterize.get_sources_and_requests")

\* the pairs of a plan that carry a request
Requested(res) == {k \in DOMAIN res.pairs : ~IsNone(res.pairs[k].req)}

\* C19: the plan of Rasterize raises, returning no pairs, for every mode
\* other than vals, time and meta, and for a vals request whose bbox is
\* reversed on an axis or has no size on exactly one axis.  A bbox that is
\* one point and a bbox with x1 < x2 and y1 < y2 are accepted, and give
\* exactly one request, to the source, of mode intersects, over box(bbox).
C19_RasterizePlanChecksWindow ==
    RasterizePlanCall =>
       LET request == call.args[2].d
           x1 == request.bbox[1]
           y1 == request.bbox[2]
           x2 == request.bbox[3]
           y2 == request.bbox[4]
           res == call.res
           reversed == x2 < x1 \/ y2 < y1
           flat == (x1 = x2) # (y1 = y2)
           point == x1 = x2 /\ y1 = y2
       IN /\ request.mode \notin {"vals", "time", "meta"} => IsError(res)
          /\ request.mode = "vals" /\ (reversed \/ flat) => IsError(res)
          /\ request.mode = "vals" /\ (point \/ (x1 < x2 /\ y1 < y2)) =>
                /\ ~IsError(res)
                /\ Requested(res) = {1}
                /\ res.pairs[1].src = Args(call.args[1].id)[1]
                /\ res.pairs[1].req.d.mode = "intersects"
                /\ res.pairs[1].req.d.geometry = BoxV(request.bbox)

\* a vals request over a window without width is refused
C19_Witness ==
    /\ RasterizePlanCall
    /\ call.args[2].d.mode = "vals"
    /\ call.args[2].d.bbox = <<0, 0, 0, GridH>>
    /\ call.res = Raise("ValueError")

----------------------------------------------------------------------------
(* The row bound of GeometryFileSource.process (geometry/sources.py        *)
(* 132-144).                                                               *)

\* the feature-mode calls of GeometryFileSource.process
FeatureCall ==
    /\ IsCall("GeometryFileSource.process")
    /\ call.args[2].d.mode \in {"intersects", "centroid"}

\* the rows of the file that match the request, in the file's order
MatchingRows(url, req) ==
    SelectSeq(files[url],
              LAMBDA r : /\ BoxesTouch(Bounds(r.geometry), req.geometry.b)
                         /\ IF req.mode = "centroid"
                            THEN CentroidWithin(r.geometry, req.geometry.b)
                            ELSE Intersects(r.geometry, req.geometry.b))

\* C20: a feature-mode call of GeometryFileSource.process never returns
\* more rows than its bound.  With a limit L in the request the result is
\* the first L matching rows, or all of them when there are fewer; without
\* a limit the call raises when the matching rows exceed the configured
\* ceiling and returns all matching rows otherwise.
C20_FileSourceRowsBounded ==
    FeatureCall =>
       LET req == call.args[2].d
           limit == IF HasKey(req, "limit") THEN req.limit ELSE <<>>
           matching == MatchingRows(call.args[1].s, req)
           res == call.res
       IN IF limit # <<>>
          THEN /\ ~IsError(res)
               /\ Len(res.d.features.rows) <= limit[1]
               /\ res.d.features.rows =
                     SubSeq(matching, 1, IF Len(matching) < limit[1]
                                         THEN Len(matching) ELSE limit[1])
          ELSE IF Len(matching) > GeometryLimit
               THEN res = Raise("RuntimeError")
               ELSE /\ ~IsError(res)
                    /\ res.d.features.rows = matching

----------------------------------------------------------------------------
(* The extent of GeometryFileSource.process (geometry/sources.py 81-131).  *)

\* the extent-mode calls of GeometryFileSource.process
ExtentCall ==
    /\ IsCall("GeometryFileSource.process")
    /\ call.args[2].d.mode = "extent"

\* the rows of the file that pass every filtering step of the request: the
\* read over the bbox, the property filters, min_size, the true intersection
Satisfying(url, req) ==
    SelectSeq(files[url],
              LAMBDA r :
                 LET b == Bounds(r.geometry)
                     ms == IF HasKey(req, "min_size") THEN req.min_size ELSE <<>>
                 IN /\ BoxesTouch(b, req.geometry.b)
                    /\ \A k \in DOMAIN req.filters :
                          req.filters[k].field = "a" => r.a = req.filters[k].value
                    /\ ms # <<>> => \/ (b[3] - b[1]) * ms[2] > ms[1]
                                    \/ (b[4] - b[2]) * ms[2] > ms[1]
                    /\ Intersects(r.geometry, req.geometry.b))

\* C21: in extent mode GeometryFileSource.process returns the extent None
\* exactly when no feature passes all the filtering steps of the request,
\* and a box of four finite coordinates otherwise (so that Difference takes
\* its empty shortcut exactly when A has no matching feature).
C21_ExtentAbsentIffNoFeature ==
    ExtentCall =>
       LET req == call.args[2].d
           res == call.res
       IN /\ ~IsError(res)
          /\ IsNone(res.d.extent) <=> Satisfying(call.args[1].s, req) = <<>>
          /\ ~IsNone(res.d.extent) => res.d.extent.t = "box"

----------------------------------------------------------------------------
(* No data under Reclassify.process (raster/misc.py 407-435).              *)

\* C22: Reclassify.process gives every no-data cell of its input the
\* no_data_value it reports for its output, whether select is set or not,
\* for every mapping, a mapping that has the no_data_value of the input
\* among its source values included.
C22_ReclassifyKeepsNoData ==
    ReclassifyCall =>
       LET values == call.args[1].d.values
           no_data_value == call.args[1].d.no_data_value
           res == call.res
       IN /\ ~IsError(res)
          /\ \A p \in DOMAIN values :
                NumEq(values[p], no_data_value) =>
                   res.d.values[p] = res.d.no_data_value

=============================================================================
